---- MODULE Spec2Model ----
(***************************************************************************)
(* Rate limiter and credential lifecycle of the ChatKit backend            *)
(* (backend/app/rate_limiter.py, backend/app/main.py, backend/app/models.py*)
(* backend/app/config.py, backend/app/test_fixtures.py).                   *)
(*                                                                         *)
(* The store is the SQL database behind SQLAlchemy.  Every request owns    *)
(* its own ORM session: a query reads the committed rows, attribute        *)
(* assignments stay in the request's memory, and commit() writes them.     *)
(* A request is therefore a sequence of steps, one per store access, and   *)
(* requests of different workers interleave between those steps.           *)
(*                                                                         *)
(* The calls a handler makes to email_service only print and are left      *)
(* out; its call to analytics_service.log_event is part of its last step.  *)
(* A store call may also raise (store_up): nothing on the request paths    *)
(* modelled here catches that, so the request ends with a 500.             *)
(*                                                                         *)
(* Time is counted in ticks, TicksPerSecond to the second, so that         *)
(* datetime arithmetic below a second (int() of total_seconds()) is kept.  *)
(* The configuration is the one of INTEGRATION_TEST_MODE (config.py 32-37),*)
(* in which startup also seeds the fixtures of test_fixtures.py.           *)
(***************************************************************************)
EXTENDS Integers, Sequences, FiniteSets, TLC

\* ------------------------------------------------------------------ bounds
TicksPerSecond == 2      \* resolution of the clock
NumProcs == 3            \* concurrent requests (workers)
MaxCalls == 4            \* check_rate_limit calls recorded in rl_history
MaxTokens == 2           \* verification tokens issued by signup / resend
MaxSessions == 3         \* rows of the sessions table
MaxEvents == 2           \* events posted to the analytics endpoint

\* --------------------------------------------------------- configuration
RATE_LIMIT_WINDOW_SECONDS == 10
RATE_LIMIT_MAX_REQUESTS == 3
RATE_LIMIT_SAVE_CHAT == 2
RATE_LIMIT_PERSONALIZE == 2
TOKEN_TTL_MINUTES == 10
TEST_SESSION_HOURS == 24

\* timedelta(seconds=n), timedelta(minutes=n), timedelta(hours=n) in ticks
Seconds(n) == n * TicksPerSecond
Minutes(n) == Seconds(60 * n)
Hours(n) == Minutes(60 * n)

\* int(delta.total_seconds()): truncation toward zero
IntSeconds(d) == IF d >= 0 THEN d \div TicksPerSecond
                 ELSE -((-d) \div TicksPerSecond)

Max(a, b) == IF a >= b THEN a ELSE b

\* ----------------------------------------------------------------- strings
\* A str is a sequence of characters; Optional[str] is None or Some(str).
None == [is_none |-> TRUE, str |-> <<>>]
Some(s) == [is_none |-> FALSE, str |-> s]

BearerPrefix == <<"B", "e", "a", "r", "e", "r", " ">>

\* str.startswith(prefix)
startswithMut(s, prefix) ==
    /\ Len(s) >= Len(prefix)
    /\ \A i \in 1..(Len(prefix) - 1) : s[i] = prefix[i]
startswith(s, prefix) ==
    /\ Len(s) >= Len(prefix)
    /\ \A i \in 1..Len(prefix) : s[i] = prefix[i]

\* s[n:]
SliceFrom(s, n) == IF Len(s) <= n THEN <<>> ELSE SubSeq(s, n + 1, Len(s))

TEST_USER_EMAIL == <<"t", "@", "i", ".", "l">>
TEST_SESSION_TOKEN == <<"s0">>
TEST_VERIFICATION_TOKEN == <<"v0">>

\* secrets.token_urlsafe(32): the k-th token drawn is a fresh name
SessionTokenNames == <<"s1", "s2", "s3", "s4", "s5">>
VerificationTokenNames == <<"v1", "v2", "v3", "v4">>

Procs == 1..NumProcs
Actions == {"save_chat", "personalize", "chat"}

VARIABLES
    now,                  \* datetime.utcnow(), in ticks
    users,                \* table users: rows [email, email_verified]
    sessions,             \* table sessions
    verification_tokens,  \* table verification_tokens
    rate_limits,          \* table rate_limits
    saved_chats,          \* table saved_chats
    analytics_events,     \* table analytics_events: rows [user_id, event_type]
    store_up,             \* whether the store answers (else its calls raise)
    pc,                   \* position of each request
    req,                  \* arguments and locals of each request
    resp,                 \* response of each request's last call
    rl_history            \* ghost: completed check_rate_limit calls, in order

vars == <<now, users, sessions, verification_tokens, rate_limits,
          saved_chats, analytics_events, store_up, pc, req, resp, rl_history>>

store == <<users, sessions, verification_tokens, rate_limits,
           saved_chats, analytics_events, store_up>>

NoReq == [op |-> "none"]
NoResp == [code |-> "none"]
NoRow == [id |-> 0]

Quiescent == \A p \in Procs : pc[p] = "idle"

\* ------------------------------------------------------------ rate limiter
\* max_requests when the caller passes none
max_requestsMut(action) ==
    IF action = "save_chat" THEN RATE_LIMIT_SAVE_CHAT
    ELSE RATE_LIMIT_MAX_REQUESTS
max_requests(action) ==
    IF action = "save_chat" THEN RATE_LIMIT_SAVE_CHAT
    ELSE IF action = "personalize" THEN RATE_LIMIT_PERSONALIZE
    ELSE RATE_LIMIT_MAX_REQUESTS

window_seconds == RATE_LIMIT_WINDOW_SECONDS

\* db.query(RateLimit).filter(session_token == .., action == ..): the ids
RateLimitIds(token, action) ==
    {i \in 1..Len(rate_limits) :
        rate_limits[i].session_token = token /\ rate_limits[i].action = action}

Min(S) == CHOOSE x \in S : \A y \in S : x <= y

\* .first(): the matching row with the lowest rowid, or None
first_rate_limit(token, action) ==
    IF RateLimitIds(token, action) = {} THEN NoRow
    ELSE rate_limits[Min(RateLimitIds(token, action))]

\* the id of an inserted row: an Integer primary key without a sequence,
\* which the default SQLite database (config.py line 23) fills with the
\* largest id in the table plus one, so the id of a deleted last row returns
NextRateLimitId ==
    IF rate_limits = <<>> THEN 1
    ELSE rate_limits[Len(rate_limits)].id + 1

\* position of the row with primary key id, 0 when it is gone
RowPos(id) ==
    IF \E i \in 1..Len(rate_limits) : rate_limits[i].id = id
    THEN CHOOSE i \in 1..Len(rate_limits) : rate_limits[i].id = id
    ELSE 0

RateLimitResp(allowed, retry_after) ==
    [code |-> "OK", allowed |-> allowed, retry_after |-> retry_after]

Record(p, allowed, retry_after) ==
    Append(rl_history, [session_token |-> req[p].session_token,
                        action |-> req[p].action,
                        at |-> req[p].now,
                        allowed |-> allowed,
                        retry_after |-> retry_after])

\* check_rate_limit lines 40-60: resolve the limits, take now, run the query
check_rate_limit_query(p, token, action) ==
    /\ pc[p] = "idle"
    /\ Len(rl_history) < MaxCalls
    /\ pc' = [pc EXCEPT ![p] = "rl_decide"]
    /\ req' = [req EXCEPT ![p] = [op |-> "check_rate_limit",
                                  session_token |-> token,
                                  action |-> action,
                                  max_requests |-> max_requests(action),
                                  now |-> now,
                                  rate_limit |-> first_rate_limit(token, action)]]
    /\ resp' = [resp EXCEPT ![p] = NoResp]
    /\ UNCHANGED <<now, store, rl_history>>

\* where check_rate_limit returns to: the caller of a direct call, or the
\* handler that called it (main.py lines 580 and 618)
AfterCheck(p) == IF req[p].op = "check_rate_limit" THEN "idle" ELSE "rl_return"

\* the window test of line 75, on the row as it was read
WindowExpiredMut(r) == r.rate_limit.window_start <= r.now - Seconds(window_seconds)
WindowExpired(r) == r.rate_limit.window_start < r.now - Seconds(window_seconds)

\* lines 85-87
retry_after_ofMut(r) ==
    IntSeconds(r.rate_limit.window_start + Seconds(window_seconds) - r.now)
retry_after_of(r) ==
    Max(1, IntSeconds(r.rate_limit.window_start + Seconds(window_seconds) - r.now))

check_rate_limit_createMut(p) ==
    /\ pc[p] = "rl_decide"
    /\ store_up
    /\ req[p].rate_limit = NoRow
    /\ rate_limits' = Append(rate_limits, [id |-> NextRateLimitId,
                                           session_token |-> req[p].session_token,
                                           action |-> req[p].action,
                                           count |-> 1,
                                           window_start |-> req[p].now])
    /\ resp' = [resp EXCEPT ![p] = RateLimitResp(req[p].max_requests >= 1, 0)]
    /\ rl_history' = Record(p, req[p].max_requests >= 1, 0)
    /\ pc' = [pc EXCEPT ![p] = AfterCheck(p)]
    /\ UNCHANGED <<now, users, sessions, verification_tokens, req,
                   saved_chats, store_up,
                   analytics_events>>
\* lines 62-72: no row was found, INSERT one and commit
check_rate_limit_create(p) ==
    /\ pc[p] = "rl_decide"
    /\ store_up
    /\ req[p].rate_limit = NoRow
    /\ rate_limits' = Append(rate_limits, [id |-> NextRateLimitId,
                                           session_token |-> req[p].session_token,
                                           action |-> req[p].action,
                                           count |-> 1,
                                           window_start |-> req[p].now])
    /\ resp' = [resp EXCEPT ![p] = RateLimitResp(TRUE, 0)]
    /\ rl_history' = Record(p, TRUE, 0)
    /\ pc' = [pc EXCEPT ![p] = AfterCheck(p)]
    /\ UNCHANGED <<now, users, sessions, verification_tokens, req,
                   saved_chats, store_up,
                   analytics_events>>

\* the UPDATE that commit() flushes for the loaded row: only the attributes
\* whose value differs from the loaded one are written, WHERE id = row.id;
\* a row that is gone makes the flush fail (StaleDataError)
UpdateRowMut(id, loaded, count, window_start) ==
    [rate_limits EXCEPT ![RowPos(id)].count = count]
UpdateRow(id, loaded, count, window_start) ==
    [rate_limits EXCEPT ![RowPos(id)] =
        [@ EXCEPT !.count = IF count = loaded.count THEN @ ELSE count,
                  !.window_start = IF window_start = loaded.window_start
                                   THEN @ ELSE window_start]]

\* lines 74-80: the window has expired, reset the counter and commit
check_rate_limit_reset(p) ==
    /\ pc[p] = "rl_decide"
    /\ store_up
    /\ req[p].rate_limit # NoRow
    /\ WindowExpired(req[p])
    /\ IF RowPos(req[p].rate_limit.id) = 0
       THEN /\ resp' = [resp EXCEPT ![p] = [code |-> "INTERNAL_ERROR"]]
            /\ UNCHANGED <<rate_limits, rl_history>>
       ELSE /\ rate_limits' = UpdateRow(req[p].rate_limit.id, req[p].rate_limit,
                                        1, req[p].now)
            /\ resp' = [resp EXCEPT ![p] = RateLimitResp(TRUE, 0)]
            /\ rl_history' = Record(p, TRUE, 0)
    /\ pc' = [pc EXCEPT ![p] = AfterCheck(p)]
    /\ UNCHANGED <<now, users, sessions, verification_tokens, req,
                   saved_chats, store_up,
                   analytics_events>>

check_rate_limit_rejectMut(p) ==
    /\ pc[p] = "rl_decide"
    /\ req[p].rate_limit # NoRow
    /\ ~WindowExpired(req[p])
    /\ req[p].rate_limit.count >= req[p].max_requests
    /\ rate_limits' = IF RowPos(req[p].rate_limit.id) = 0 THEN rate_limits
                      ELSE [rate_limits EXCEPT ![RowPos(req[p].rate_limit.id)].count
                                                   = req[p].rate_limit.count + 1]
    /\ resp' = [resp EXCEPT ![p] = RateLimitResp(FALSE, retry_after_of(req[p]))]
    /\ rl_history' = Record(p, FALSE, retry_after_of(req[p]))
    /\ pc' = [pc EXCEPT ![p] = AfterCheck(p)]
    /\ UNCHANGED <<now, users, sessions, verification_tokens, req,
                   saved_chats, store_up, analytics_events>>
\* lines 82-88: the limit is reached, no write
check_rate_limit_reject(p) ==
    /\ pc[p] = "rl_decide"
    /\ req[p].rate_limit # NoRow
    /\ ~WindowExpired(req[p])
    /\ req[p].rate_limit.count >= req[p].max_requests
    /\ resp' = [resp EXCEPT ![p] = RateLimitResp(FALSE, retry_after_of(req[p]))]
    /\ rl_history' = Record(p, FALSE, retry_after_of(req[p]))
    /\ pc' = [pc EXCEPT ![p] = AfterCheck(p)]
    /\ UNCHANGED <<now, store, req>>

\* lines 90-93: under the limit, count += 1 on the loaded value and commit
check_rate_limit_increment(p) ==
    /\ pc[p] = "rl_decide"
    /\ store_up
    /\ req[p].rate_limit # NoRow
    /\ ~WindowExpired(req[p])
    /\ req[p].rate_limit.count < req[p].max_requests
    /\ IF RowPos(req[p].rate_limit.id) = 0
       THEN /\ resp' = [resp EXCEPT ![p] = [code |-> "INTERNAL_ERROR"]]
            /\ UNCHANGED <<rate_limits, rl_history>>
       ELSE /\ rate_limits' = UpdateRow(req[p].rate_limit.id, req[p].rate_limit,
                                        req[p].rate_limit.count + 1,
                                        req[p].rate_limit.window_start)
            /\ resp' = [resp EXCEPT ![p] = RateLimitResp(TRUE, 0)]
            /\ rl_history' = Record(p, TRUE, 0)
    /\ pc' = [pc EXCEPT ![p] = AfterCheck(p)]
    /\ UNCHANGED <<now, users, sessions, verification_tokens, req,
                   saved_chats, store_up,
                   analytics_events>>

\* check_rate_limit lines 40-60 when the caller passes max_requests
check_rate_limit_query_with(p, token, action, limit) ==
    /\ pc[p] = "idle"
    /\ Len(rl_history) < MaxCalls
    /\ pc' = [pc EXCEPT ![p] = "rl_decide"]
    /\ req' = [req EXCEPT ![p] = [op |-> "check_rate_limit",
                                  session_token |-> token,
                                  action |-> action,
                                  max_requests |-> limit,
                                  now |-> now,
                                  rate_limit |-> first_rate_limit(token, action)]]
    /\ resp' = [resp EXCEPT ![p] = NoResp]
    /\ UNCHANGED <<now, store, rl_history>>

\* reset_rate_limit lines 107-112: run the query; without a row it returns
reset_rate_limit_query(p, token, action) ==
    /\ pc[p] = "idle"
    /\ req' = [req EXCEPT ![p] = [op |-> "reset_rate_limit",
                                  session_token |-> token,
                                  action |-> action,
                                  rate_limit |-> first_rate_limit(token, action)]]
    /\ IF first_rate_limit(token, action) = NoRow
       THEN /\ pc' = [pc EXCEPT ![p] = "idle"]
            /\ resp' = [resp EXCEPT ![p] = [code |-> "OK"]]
       ELSE /\ pc' = [pc EXCEPT ![p] = "reset_commit"]
            /\ resp' = [resp EXCEPT ![p] = NoResp]
    /\ UNCHANGED <<now, store, rl_history>>

\* DELETE FROM rate_limits WHERE id = ..: a row that is already gone only
\* draws a warning
DeleteRow(id) ==
    IF RowPos(id) = 0 THEN rate_limits
    ELSE SubSeq(rate_limits, 1, RowPos(id) - 1)
             \o SubSeq(rate_limits, RowPos(id) + 1, Len(rate_limits))

\* reset_rate_limit lines 113-114: delete the row that was read and commit
reset_rate_limit_commit(p) ==
    /\ pc[p] = "reset_commit"
    /\ rate_limits' = DeleteRow(req[p].rate_limit.id)
    /\ pc' = [pc EXCEPT ![p] = "idle"]
    /\ resp' = [resp EXCEPT ![p] = [code |-> "OK"]]
    /\ UNCHANGED <<now, users, sessions, verification_tokens, saved_chats,
                   store_up, req, rl_history,
                   analytics_events>>

\* the rows of a token, as .all() returns them, by position
TokenRateLimitIds(token) ==
    {i \in 1..Len(rate_limits) : rate_limits[i].session_token = token}

MaxOf(S) == CHOOSE x \in S : \A y \in S : y <= x

\* get_rate_limit_status lines 142-148: the limit reported for a row's action
status_max_requests(action) ==
    IF action = "save_chat" THEN RATE_LIMIT_SAVE_CHAT
    ELSE IF action = "personalize" THEN RATE_LIMIT_PERSONALIZE
    ELSE RATE_LIMIT_MAX_REQUESTS

\* get_rate_limit_status lines 131-158: one entry per action, a later row
\* of the same action overwriting an earlier one
rate_limit_status(token) ==
    [action \in {rate_limits[i].action : i \in TokenRateLimitIds(token)} |->
        LET rl == rate_limits[MaxOf({i \in TokenRateLimitIds(token) :
                                        rate_limits[i].action = action})]
            remaining_seconds ==
                IntSeconds(rl.window_start + Seconds(RATE_LIMIT_WINDOW_SECONDS) - now)
        IN  [count |-> rl.count,
             max |-> status_max_requests(action),
             window_seconds |-> RATE_LIMIT_WINDOW_SECONDS,
             remaining_seconds |-> Max(0, remaining_seconds),
             limited |-> rl.count >= status_max_requests(action)
                             /\ remaining_seconds > 0]]

\* get_rate_limit_status lines 117-158: a query and no write
get_rate_limit_statusMut(p, token) ==
    /\ pc[p] = "idle"
    /\ req' = [req EXCEPT ![p] = [op |-> "get_rate_limit_status",
                                  session_token |-> token]]
    /\ resp' = [resp EXCEPT ![p] = [code |-> "OK", status |-> rate_limit_status(token)]]
    /\ rate_limits' = [i \in 1..Len(rate_limits) |->
                          IF rate_limits[i].session_token = token
                             /\ rate_limits[i].window_start + Seconds(window_seconds) < now
                          THEN [rate_limits[i] EXCEPT !.count = 0]
                          ELSE rate_limits[i]]
    /\ UNCHANGED <<now, users, sessions, verification_tokens, saved_chats,
                   store_up, pc, rl_history,
                   analytics_events>>
get_rate_limit_status(p, token) ==
    /\ pc[p] = "idle"
    /\ req' = [req EXCEPT ![p] = [op |-> "get_rate_limit_status",
                                  session_token |-> token]]
    /\ resp' = [resp EXCEPT ![p] = [code |-> "OK", status |-> rate_limit_status(token)]]
    /\ UNCHANGED <<now, store, pc, rl_history>>

\* -------------------------------------------------------------- credentials
NULL == -1     \* a DateTime column holding NULL

UserIds(email) == {i \in 1..Len(users) : users[i].email = email}

\* db.query(User).filter(User.email == email).first(): the id, 0 for None
first_user(email) == IF UserIds(email) = {} THEN 0 ELSE Min(UserIds(email))

\* is_valid_email: ^[^\s@]+@[^\s@]+\.[^\s@]+$
is_valid_email(email) ==
    \E i, j \in 1..Len(email) :
        /\ email[i] = "@"
        /\ email[j] = "."
        /\ 1 < i
        /\ i + 1 < j
        /\ j < Len(email)
        /\ \A k \in 1..Len(email) : k # i => email[k] \notin {" ", "@"}

Error(code) == [code |-> code]

\* analytics_service.log_event: the table after the event is added; the
\* event carries the id of the user with this email, NULL without one
log_event(event_type, user_email) ==
    Append(analytics_events,
           [user_id |-> IF user_email.is_none \/ user_email.str = <<>>
                        THEN NULL
                        ELSE IF first_user(user_email.str) = 0
                             THEN NULL
                             ELSE first_user(user_email.str),
            event_type |-> event_type,
            created_at |-> now])

SessionIds(token) ==
    {i \in 1..Len(sessions) : sessions[i].session_token = token}

validate_tokenMut(authorization) ==
    IF authorization.is_none \/ authorization.str = <<>>
       \/ ~startswith(authorization.str, BearerPrefix)
    THEN Error("UNAUTHORIZED")
    ELSE IF \A i \in SessionIds(SliceFrom(authorization.str, 7)) :
                sessions[i].expires_at # NULL /\ now > sessions[i].expires_at
         THEN Error("SESSION_EXPIRED")
         ELSE [code |-> "OK",
               session |-> Min(SessionIds(SliceFrom(authorization.str, 7)))]
\* validate_token: the session row's id on success, else the error raised
validate_token(authorization) ==
    IF authorization.is_none \/ authorization.str = <<>>
       \/ ~startswith(authorization.str, BearerPrefix)
    THEN Error("UNAUTHORIZED")
    ELSE IF SessionIds(SliceFrom(authorization.str, 7)) = {}
         THEN Error("SESSION_EXPIRED")
         ELSE [code |-> "OK",
               session |-> Min(SessionIds(SliceFrom(authorization.str, 7)))]

\* rows a request may still add to sessions / verification_tokens
SessionsInFlight ==
    Cardinality({p \in Procs : pc[p] \in {"verify_commit", "refresh_commit"}})
TokensInFlight ==
    Cardinality({p \in Procs : pc[p] \in {"signup_user", "signup_token"}})

Finish(p, r) ==
    /\ pc' = [pc EXCEPT ![p] = "idle"]
    /\ resp' = [resp EXCEPT ![p] = r]

NewVerificationToken(email, origin) ==
    [email |-> email,
     token |-> <<VerificationTokenNames[Len(verification_tokens)]>>,
     expires_at |-> now + Minutes(TOKEN_TTL_MINUTES),
     used |-> FALSE,
     origin |-> origin]       \* ghost: the operation that issued the token

\* signup lines 373-388: validate the payload, look the user up
signup_query(p, email, consent) ==
    /\ pc[p] = "idle"
    /\ Len(verification_tokens) + TokensInFlight <= MaxTokens
    /\ req' = [req EXCEPT ![p] = [op |-> "signup", email |-> email,
                                  consent_data_storage |-> consent]]
    /\ IF ~is_valid_email(email)
       THEN Finish(p, Error("INVALID_EMAIL"))
       ELSE IF ~consent
            THEN Finish(p, Error("CONSENT_REQUIRED"))
            ELSE /\ pc' = [pc EXCEPT ![p] = IF first_user(email) = 0
                                            THEN "signup_user"
                                            ELSE "signup_token"]
                 /\ resp' = [resp EXCEPT ![p] = NoResp]
    /\ UNCHANGED <<now, store, rl_history>>

\* signup lines 389-393: INSERT the user and commit; users.email is unique
signup_user(p) ==
    /\ pc[p] = "signup_user"
    /\ IF first_user(req[p].email) # 0
       THEN /\ Finish(p, Error("INTERNAL_ERROR"))
            /\ UNCHANGED users
       ELSE /\ users' = Append(users, [email |-> req[p].email,
                                       email_verified |-> FALSE])
            /\ pc' = [pc EXCEPT ![p] = "signup_token"]
            /\ UNCHANGED resp
    /\ UNCHANGED <<now, sessions, verification_tokens, rate_limits, req,
                   rl_history,
                   saved_chats, store_up,
                   analytics_events>>

\* signup lines 395-414: INSERT the verification token and commit, then log
\* the signup event
signup_token(p) ==
    /\ pc[p] = "signup_token"
    /\ verification_tokens' =
           Append(verification_tokens, NewVerificationToken(req[p].email, "signup"))
    /\ analytics_events' = log_event("signup", Some(req[p].email))
    /\ Finish(p, [code |-> "OK", status |-> "verification_sent"])
    /\ UNCHANGED <<now, users, sessions, rate_limits, req, rl_history,
                   saved_chats, store_up>>

resend_verificationMut(p, email) ==
    /\ pc[p] = "idle"
    /\ Len(verification_tokens) + TokensInFlight <= MaxTokens
    /\ req' = [req EXCEPT ![p] = [op |-> "resend_verification", email |-> email]]
    /\ IF ~is_valid_email(email)
       THEN /\ Finish(p, Error("INVALID_EMAIL"))
            /\ UNCHANGED verification_tokens
       ELSE /\ verification_tokens' =
                   Append([i \in 1..Len(verification_tokens) |->
                              IF verification_tokens[i].email = email
                              THEN [verification_tokens[i] EXCEPT !.used = TRUE]
                              ELSE verification_tokens[i]],
                          NewVerificationToken(email, "resend"))
            /\ Finish(p, [code |-> "OK", status |-> "verification_sent"])
    /\ UNCHANGED <<now, users, sessions, rate_limits, rl_history,
                   saved_chats, store_up,
                   analytics_events>>
\* resend_verification lines 511-533
resend_verification(p, email) ==
    /\ pc[p] = "idle"
    /\ Len(verification_tokens) + TokensInFlight <= MaxTokens
    /\ req' = [req EXCEPT ![p] = [op |-> "resend_verification", email |-> email]]
    /\ IF ~is_valid_email(email)
       THEN /\ Finish(p, Error("INVALID_EMAIL"))
            /\ UNCHANGED verification_tokens
       ELSE /\ verification_tokens' =
                   Append(verification_tokens, NewVerificationToken(email, "resend"))
            /\ Finish(p, [code |-> "OK", status |-> "verification_sent"])
    /\ UNCHANGED <<now, users, sessions, rate_limits, rl_history,
                   saved_chats, store_up,
                   analytics_events>>

\* the query of verify lines 421-424: rows with this token and used == False
UnusedTokenIdsMut(token) ==
    {i \in 1..Len(verification_tokens) : verification_tokens[i].token = token}
UnusedTokenIds(token) ==
    {i \in 1..Len(verification_tokens) :
        verification_tokens[i].token = token /\ ~verification_tokens[i].used}

\* the expiry test of verify line 433
TokenExpiredMut(row) == now >= row.expires_at
TokenExpired(row) == now > row.expires_at

\* verify lines 420-437: find the token, check its expiry
verify_query(p, token) ==
    /\ pc[p] = "idle"
    /\ Len(sessions) + SessionsInFlight < MaxSessions
    /\ IF UnusedTokenIds(token) = {}
       THEN /\ Finish(p, Error("INVALID_TOKEN"))
            /\ req' = [req EXCEPT ![p] = [op |-> "verify", token |-> token, now |-> now]]
       ELSE IF TokenExpired(verification_tokens[Min(UnusedTokenIds(token))])
            THEN /\ Finish(p, Error("TOKEN_EXPIRED"))
                 /\ req' = [req EXCEPT ![p] = [op |-> "verify", token |-> token, now |-> now]]
            ELSE /\ pc' = [pc EXCEPT ![p] = "verify_commit"]
                 /\ resp' = [resp EXCEPT ![p] = NoResp]
                 /\ req' = [req EXCEPT ![p] =
                               [op |-> "verify", token |-> token, now |-> now,
                                verification |-> Min(UnusedTokenIds(token))]]
    /\ UNCHANGED <<now, store, rl_history>>

NewSessionMut(user_id, via) ==
    [user_id |-> user_id,
     session_token |-> TEST_SESSION_TOKEN,
     expires_at |-> NULL,
     last_activity |-> now,
     via |-> via]
NewSession(user_id, via) ==
    [user_id |-> user_id,
     session_token |-> <<SessionTokenNames[Len(sessions)]>>,
     expires_at |-> NULL,
     last_activity |-> now,
     via |-> via]             \* ghost: the verification token consumed for it

verify_commitMut(p) ==
    /\ pc[p] = "verify_commit"
    /\ LET v == verification_tokens[req[p].verification]
           u == first_user(v.email)
       IN IF u = 0
          THEN /\ Finish(p, Error("INTERNAL_ERROR"))
               /\ UNCHANGED <<users, sessions, verification_tokens,
                              analytics_events>>
          ELSE /\ verification_tokens' =
                      [verification_tokens EXCEPT ![req[p].verification].used = TRUE]
               /\ UNCHANGED users
               /\ sessions' = Append(sessions, NewSession(u, v.token))
               /\ analytics_events' =
                      log_event("email_verified", Some(users[u].email))
               /\ Finish(p, [code |-> "OK",
                             session_token |-> <<SessionTokenNames[Len(sessions)]>>,
                             email |-> users[u].email])
    /\ UNCHANGED <<now, rate_limits, req, rl_history,
                   saved_chats, store_up>>
\* verify lines 439-464: mark the token used, verify the user, INSERT the
\* session; one transaction, committed at line 456.  A token whose email has
\* no user row makes user.id fail and the transaction roll back.  The
\* email_verified event is logged after the commit (line 459).
verify_commit(p) ==
    /\ pc[p] = "verify_commit"
    /\ LET v == verification_tokens[req[p].verification]
           u == first_user(v.email)
       IN IF u = 0
          THEN /\ Finish(p, Error("INTERNAL_ERROR"))
               /\ UNCHANGED <<users, sessions, verification_tokens,
                              analytics_events>>
          ELSE /\ verification_tokens' =
                      [verification_tokens EXCEPT ![req[p].verification].used = TRUE]
               /\ users' = [users EXCEPT ![u].email_verified = TRUE]
               /\ sessions' = Append(sessions, NewSession(u, v.token))
               /\ analytics_events' =
                      log_event("email_verified", Some(users[u].email))
               /\ Finish(p, [code |-> "OK",
                             session_token |-> <<SessionTokenNames[Len(sessions)]>>,
                             email |-> users[u].email])
    /\ UNCHANGED <<now, rate_limits, req, rl_history,
                   saved_chats, store_up>>

\* session_check lines 469-470: validate the credential, load the user
session_check_query(p, authorization) ==
    /\ pc[p] = "idle"
    /\ req' = [req EXCEPT ![p] = [op |-> "session_check",
                                  authorization |-> authorization,
                                  session |-> IF validate_token(authorization).code = "OK"
                                              THEN validate_token(authorization).session
                                              ELSE 0]]
    /\ IF validate_token(authorization).code # "OK"
       THEN Finish(p, validate_token(authorization))
       ELSE /\ pc' = [pc EXCEPT ![p] = "session_check_commit"]
            /\ resp' = [resp EXCEPT ![p] = NoResp]
    /\ UNCHANGED <<now, store, rl_history>>

\* session_check lines 472-479: touch last_activity and commit
session_check_commit(p) ==
    /\ pc[p] = "session_check_commit"
    /\ sessions' = [sessions EXCEPT ![req[p].session].last_activity = now]
    /\ Finish(p, [code |-> "OK", valid |-> TRUE,
                  email |-> users[sessions[req[p].session].user_id].email])
    /\ UNCHANGED <<now, users, verification_tokens, rate_limits, req, rl_history,
                   saved_chats, store_up,
                   analytics_events>>

\* refresh_token line 492: validate the credential; old_session is the row
\* as it was loaded
refresh_token_query(p, authorization) ==
    /\ pc[p] = "idle"
    /\ Len(sessions) + SessionsInFlight < MaxSessions
    /\ req' = [req EXCEPT ![p] =
                  [op |-> "refresh_token",
                   authorization |-> authorization,
                   user_id |-> IF validate_token(authorization).code = "OK"
                               THEN sessions[validate_token(authorization).session].user_id
                               ELSE 0]]
    /\ IF validate_token(authorization).code # "OK"
       THEN Finish(p, validate_token(authorization))
       ELSE /\ pc' = [pc EXCEPT ![p] = "refresh_commit"]
            /\ resp' = [resp EXCEPT ![p] = NoResp]
    /\ UNCHANGED <<now, store, rl_history>>

\* refresh_token lines 494-505: INSERT a session with a new token for the
\* same user and commit; the old session row is not touched
refresh_token_commit(p) ==
    /\ pc[p] = "refresh_commit"
    /\ sessions' = Append(sessions, NewSession(req[p].user_id, <<>>))
    /\ Finish(p, [code |-> "OK", token |-> <<SessionTokenNames[Len(sessions)]>>])
    /\ UNCHANGED <<now, users, verification_tokens, rate_limits, req, rl_history,
                   saved_chats, store_up,
                   analytics_events>>

\* ---------------------------------------------------------------- handlers
\* a store call that raises: nothing in validate_token, check_rate_limit or
\* the handlers catches it, the transaction is rolled back and the global
\* exception handler answers 500 internal_error
OnStoreErrorMut(p) ==
    /\ pc' = [pc EXCEPT ![p] = "rl_return"]
    /\ resp' = [resp EXCEPT ![p] = RateLimitResp(TRUE, 0)]
OnStoreError(p) == Finish(p, Error("INTERNAL_ERROR"))

\* the store stops or resumes answering
StoreOutage ==
    /\ store_up' = ~store_up
    /\ UNCHANGED <<now, users, sessions, verification_tokens, rate_limits,
                   saved_chats, pc, req, resp, rl_history,
                   analytics_events>>

HandlerAuthMut(p, op, authorization) ==
    /\ pc[p] = "idle"
    /\ Len(rl_history) < MaxCalls
    /\ IF validate_token(authorization).code = "UNAUTHORIZED"
       THEN /\ Finish(p, validate_token(authorization))
            /\ req' = [req EXCEPT ![p] = [op |-> op, authorization |-> authorization]]
       ELSE IF ~store_up
            THEN /\ OnStoreError(p)
                 /\ req' = [req EXCEPT ![p] = [op |-> op, authorization |-> authorization]]
            ELSE IF validate_token(authorization).code # "OK"
                 THEN /\ Finish(p, validate_token(authorization))
                      /\ req' = [req EXCEPT ![p] =
                                    [op |-> op, authorization |-> authorization]]
                 ELSE /\ pc' = [pc EXCEPT ![p] = "handler_rl"]
                      /\ resp' = [resp EXCEPT ![p] = NoResp]
                      /\ req' = [req EXCEPT ![p] =
                             [op |-> op,
                              authorization |-> authorization,
                              session_token |->
                                  sessions[Min({i \in 1..Len(sessions) :
                                      sessions[i].user_id =
                                          sessions[validate_token(authorization).session]
                                              .user_id})].session_token,
                              user_id |->
                                  sessions[validate_token(authorization).session].user_id,
                              action |-> op]]
    /\ UNCHANGED <<now, store, rl_history>>
\* save_chat lines 576-577, personalize lines 614-615: validate the
\* credential (the header is tested before the store is read), load the user
HandlerAuth(p, op, authorization) ==
    /\ pc[p] = "idle"
    /\ Len(rl_history) < MaxCalls
    /\ IF validate_token(authorization).code = "UNAUTHORIZED"
       THEN /\ Finish(p, validate_token(authorization))
            /\ req' = [req EXCEPT ![p] = [op |-> op, authorization |-> authorization]]
       ELSE IF ~store_up
            THEN /\ OnStoreError(p)
                 /\ req' = [req EXCEPT ![p] = [op |-> op, authorization |-> authorization]]
            ELSE IF validate_token(authorization).code # "OK"
                 THEN /\ Finish(p, validate_token(authorization))
                      /\ req' = [req EXCEPT ![p] =
                                    [op |-> op, authorization |-> authorization]]
                 ELSE /\ pc' = [pc EXCEPT ![p] = "handler_rl"]
                      /\ resp' = [resp EXCEPT ![p] = NoResp]
                      /\ req' = [req EXCEPT ![p] =
                             [op |-> op,
                              authorization |-> authorization,
                              session_token |->
                                  sessions[validate_token(authorization).session].session_token,
                              user_id |->
                                  sessions[validate_token(authorization).session].user_id,
                              action |-> op]]
    /\ UNCHANGED <<now, store, rl_history>>

save_chat_auth(p, authorization) == HandlerAuth(p, "save_chat", authorization)

personalize_auth(p, authorization) == HandlerAuth(p, "personalize", authorization)

\* the call of save_chat line 580 / personalize line 618 into
\* check_rate_limit lines 40-60
handler_check_rate_limit(p) ==
    /\ pc[p] = "handler_rl"
    /\ IF ~store_up
       THEN /\ OnStoreError(p)
            /\ UNCHANGED req
       ELSE /\ pc' = [pc EXCEPT ![p] = "rl_decide"]
            /\ req' = [req EXCEPT ![p] =
                   [op |-> req[p].op,
                    authorization |-> req[p].authorization,
                    session_token |-> req[p].session_token,
                    user_id |-> req[p].user_id,
                    action |-> req[p].action,
                    max_requests |-> max_requests(req[p].action),
                    now |-> now,
                    rate_limit |-> first_rate_limit(req[p].session_token,
                                                    req[p].action)]]
            /\ UNCHANGED resp
    /\ UNCHANGED <<now, store, rl_history>>

\* check_rate_limit lines 62-93 when the commit raises: no row is written
\* and the call does not return
check_rate_limit_unavailable(p) ==
    /\ pc[p] = "rl_decide"
    /\ ~store_up
    /\ IF req[p].rate_limit = NoRow THEN TRUE
       ELSE IF WindowExpired(req[p]) THEN TRUE
       ELSE req[p].rate_limit.count < req[p].max_requests
    /\ OnStoreError(p)
    /\ UNCHANGED <<now, store, req, rl_history>>

\* `if not allowed` of save_chat line 581 / personalize line 619
AllowedMut(r) == TRUE
Allowed(r) == r.allowed

\* HTTPException 429 of lines 582-588 / 620-626
RateLimited(retry_after) == [code |-> "rate_limited", retry_after |-> retry_after]

\* save_chat lines 581-607: answer 429 when limited, else INSERT the chat,
\* commit and log the save_chat event
save_chat_commit(p) ==
    /\ pc[p] = "rl_return"
    /\ req[p].op = "save_chat"
    /\ IF resp[p].code # "OK"
       THEN /\ Finish(p, resp[p])
            /\ UNCHANGED <<saved_chats, analytics_events>>
       ELSE IF ~Allowed(resp[p])
            THEN /\ Finish(p, RateLimited(resp[p].retry_after))
                 /\ UNCHANGED <<saved_chats, analytics_events>>
            ELSE IF ~store_up
                 THEN /\ OnStoreError(p)
                      /\ UNCHANGED <<saved_chats, analytics_events>>
                 ELSE /\ saved_chats' = Append(saved_chats,
                                               [user_id |-> req[p].user_id,
                                                created_at |-> now])
                      /\ analytics_events' =
                             log_event("save_chat",
                                       Some(users[req[p].user_id].email))
                      /\ Finish(p, [code |-> "OK",
                                    chat_id |-> Len(saved_chats) + 1,
                                    saved_at |-> now])
    /\ UNCHANGED <<now, users, sessions, verification_tokens, rate_limits,
                   store_up, req, rl_history>>

\* personalize lines 619-648: answer 429 when limited, else read the user's
\* saved chats, generate the recommendations and log the personalize event
personalize_result(p) ==
    /\ pc[p] = "rl_return"
    /\ req[p].op = "personalize"
    /\ IF resp[p].code # "OK"
       THEN /\ Finish(p, resp[p])
            /\ UNCHANGED analytics_events
       ELSE IF ~Allowed(resp[p])
            THEN /\ Finish(p, RateLimited(resp[p].retry_after))
                 /\ UNCHANGED analytics_events
            ELSE IF ~store_up
                 THEN /\ OnStoreError(p)
                      /\ UNCHANGED analytics_events
                 ELSE /\ analytics_events' =
                             log_event("personalize",
                                       Some(users[req[p].user_id].email))
                      /\ Finish(p, [code |-> "OK",
                                    recommendations |-> TRUE,
                                    chat_history |->
                                        Cardinality({i \in 1..Len(saved_chats) :
                                            saved_chats[i].user_id = req[p].user_id})])
    /\ UNCHANGED <<now, users, sessions, verification_tokens, rate_limits,
                   saved_chats, store_up, req, rl_history>>

\* verification_status lines 484-487: validate the credential, load the
\* user, report email_verified; nothing is written
verification_status(p, authorization) ==
    /\ pc[p] = "idle"
    /\ req' = [req EXCEPT ![p] = [op |-> "verification_status",
                                  authorization |-> authorization]]
    /\ IF validate_token(authorization).code # "OK"
       THEN Finish(p, validate_token(authorization))
       ELSE Finish(p, [code |-> "OK",
                       verified |->
                           users[sessions[validate_token(authorization).session]
                                     .user_id].email_verified])
    /\ UNCHANGED <<now, store, rl_history>>

\* migrate_session lines 538-548: validate the credential, load the user,
\* look the anonymous session up.  No code of the backend inserts a row into
\* anonymous_sessions, so the lookup of line 542 finds none and the request
\* ends with 404 SESSION_NOT_FOUND before anything is written.
migrate_session(p, authorization) ==
    /\ pc[p] = "idle"
    /\ req' = [req EXCEPT ![p] = [op |-> "migrate_session",
                                  authorization |-> authorization]]
    /\ IF validate_token(authorization).code # "OK"
       THEN Finish(p, validate_token(authorization))
       ELSE Finish(p, Error("SESSION_NOT_FOUND"))
    /\ UNCHANGED <<now, store, rl_history>>

\* event types a client posts to the analytics endpoint
EventTypeInputs == {"chat_message"}

\* events stored so far that came through the analytics endpoint
PostedEvents ==
    Cardinality({i \in 1..Len(analytics_events) :
                    analytics_events[i].event_type \in EventTypeInputs})

\* log_analytics_event lines 660-667: user_email stays None without a header
\* (or with an empty one); otherwise validate_token and the user lookup run
\* inside try / except-everything, so a rejected credential, like a store
\* that raises, leaves user_email None as well
OptionalUserEmail(authorization) ==
    IF authorization.is_none \/ authorization.str = <<>>
    THEN None
    ELSE IF validate_token(authorization).code = "UNAUTHORIZED"
         THEN None
         ELSE IF ~store_up
              THEN None
              ELSE IF validate_token(authorization).code # "OK"
                   THEN None
                   ELSE Some(users[sessions[validate_token(authorization).session]
                                       .user_id].email)

log_analytics_event_auth(p, authorization, event_type) ==
    /\ pc[p] = "idle"
    /\ PostedEvents < MaxEvents
    /\ req' = [req EXCEPT ![p] = [op |-> "log_analytics_event",
                                  authorization |-> authorization,
                                  event_type |-> event_type,
                                  user_email |-> OptionalUserEmail(authorization)]]
    /\ pc' = [pc EXCEPT ![p] = "analytics_log"]
    /\ resp' = [resp EXCEPT ![p] = NoResp]
    /\ UNCHANGED <<now, store, rl_history>>

\* log_analytics_event lines 670-680: log the event and answer with its id
log_analytics_event_commit(p) ==
    /\ pc[p] = "analytics_log"
    /\ IF ~store_up
       THEN /\ OnStoreError(p)
            /\ UNCHANGED analytics_events
       ELSE /\ analytics_events' = log_event(req[p].event_type, req[p].user_email)
            /\ Finish(p, [code |-> "OK",
                          event_id |-> Len(analytics_events) + 1,
                          logged_at |-> now])
    /\ UNCHANGED <<now, users, sessions, verification_tokens, rate_limits,
                   saved_chats, store_up, req, rl_history>>

\* ------------------------------------------------------------------- clock
\* time passes: the clock moves to a later instant of the set I
Tick(I) ==
    /\ \E t \in I : t > now /\ now' = t
    /\ UNCHANGED <<store, pc, req, resp, rl_history>>

\* ----------------------------------------------------------------- startup
\* startup() in integration test mode on an empty database: create_all, then
\* seed_test_user, seed_test_session, seed_test_verification_token
Init ==
    /\ now = 0
    /\ users = <<[email |-> TEST_USER_EMAIL, email_verified |-> TRUE]>>
    /\ sessions = <<[user_id |-> 1,
                     session_token |-> TEST_SESSION_TOKEN,
                     expires_at |-> Hours(TEST_SESSION_HOURS),
                     last_activity |-> 0,
                     via |-> <<>>]>>
    /\ verification_tokens = <<[email |-> TEST_USER_EMAIL,
                                token |-> TEST_VERIFICATION_TOKEN,
                                expires_at |-> Minutes(TOKEN_TTL_MINUTES),
                                used |-> FALSE,
                                origin |-> "seed"]>>
    /\ rate_limits = <<>>
    /\ saved_chats = <<>>
    /\ analytics_events = <<>>
    /\ store_up = TRUE
    /\ pc = [p \in Procs |-> "idle"]
    /\ req = [p \in Procs |-> NoReq]
    /\ resp = [p \in Procs |-> NoResp]
    /\ rl_history = <<>>

\* startup() in integration test mode on the database of an earlier run (a
\* restart of the backend): seed_test_user keeps the user it finds,
\* seed_test_session renews the session it finds, and
\* seed_test_verification_token renews the token it finds and clears its
\* used flag; a row that is missing is created.  Before seeding, startup
\* deletes every row of analytics_events (main.py lines 146-153).
startup ==
    /\ Quiescent
    /\ users' = IF first_user(TEST_USER_EMAIL) # 0 THEN users
                ELSE Append(users, [email |-> TEST_USER_EMAIL,
                                    email_verified |-> TRUE])
    /\ sessions' =
           IF SessionIds(TEST_SESSION_TOKEN) # {}
           THEN [sessions EXCEPT ![Min(SessionIds(TEST_SESSION_TOKEN))] =
                    [@ EXCEPT !.expires_at = now + Hours(TEST_SESSION_HOURS),
                              !.last_activity = now]]
           ELSE Append(sessions, [user_id |-> IF first_user(TEST_USER_EMAIL) # 0
                                              THEN first_user(TEST_USER_EMAIL)
                                              ELSE Len(users) + 1,
                                  session_token |-> TEST_SESSION_TOKEN,
                                  expires_at |-> now + Hours(TEST_SESSION_HOURS),
                                  last_activity |-> now,
                                  via |-> <<>>])
    /\ verification_tokens' =
           LET ids == {i \in 1..Len(verification_tokens) :
                          verification_tokens[i].token = TEST_VERIFICATION_TOKEN}
           IN  IF ids # {}
               THEN [verification_tokens EXCEPT ![Min(ids)] =
                        [@ EXCEPT !.expires_at = now + Minutes(TOKEN_TTL_MINUTES),
                                  !.used = FALSE]]
               ELSE Append(verification_tokens,
                           [email |-> TEST_USER_EMAIL,
                            token |-> TEST_VERIFICATION_TOKEN,
                            expires_at |-> now + Minutes(TOKEN_TTL_MINUTES),
                            used |-> FALSE,
                            origin |-> "seed"])
    /\ analytics_events' = <<>>
    /\ UNCHANGED <<now, rate_limits, saved_chats, store_up, pc, req, resp,
                   rl_history>>

\* ------------------------------------------------------------------ inputs
Around(t) == (t - 1)..(t + 2)

\* instants at which requests arrive, around the window boundaries
InstantsRL ==
    0..2 \cup Around(Seconds(window_seconds)) \cup Around(2 * Seconds(window_seconds))

\* instants around the expiry of a verification token
InstantsAuth ==
    {0, Seconds(599), Minutes(TOKEN_TTL_MINUTES), Seconds(601)}

\* instants around the expiry of the seeded session
InstantsSession ==
    {0, 1, Hours(TEST_SESSION_HOURS), Hours(TEST_SESSION_HOURS) + 1}

\* instants of the interleaved runs: inside the first window and past its end
InstantsConc == {0, 1, Seconds(window_seconds) + 1}

\* Authorization headers: absent, empty, and for a token t the well-formed
\* "Bearer t" and the malformed "bearer t", "Bearert" and bare "t"
LowerPrefix == <<"b", "e", "a", "r", "e", "r", " ">>
NoSpacePrefix == <<"B", "e", "a", "r", "e", "r">>
HeaderTokens == {TEST_SESSION_TOKEN, <<"s1">>, <<"zz">>, <<>>}
Malformed(t) == {Some(LowerPrefix \o t), Some(NoSpacePrefix \o t), Some(t)}
Headers ==
    {None} \cup {Some(BearerPrefix \o t) : t \in HeaderTokens}
           \cup UNION {Malformed(t) : t \in HeaderTokens}

EmailInputs == {TEST_USER_EMAIL, <<"a", "@", "b", ".", "c">>, <<"a", "@", "b">>}
TokenInputs == {TEST_VERIFICATION_TOKEN, <<"v1">>, <<"v2">>, <<"zz">>}

RLTokens == {TEST_SESSION_TOKEN}
RLActions == {"save_chat", "chat"}

\* ---------------------------------------------------------- specifications
\* the rate limiter with requests handled one at a time
NextRateLimitSeq ==
    \/ \E token \in RLTokens, action \in RLActions :
           Quiescent /\ check_rate_limit_query(1, token, action)
    \/ check_rate_limit_create(1)
    \/ check_rate_limit_reset(1)
    \/ check_rate_limit_reject(1)
    \/ check_rate_limit_increment(1)
    \/ Quiescent /\ Tick(InstantsRL)

SpecRateLimitSeq == Init /\ [][NextRateLimitSeq]_vars

\* the rate limiter with the requests of several workers interleaved
NextRateLimitConc ==
    \/ \E p \in Procs :
           \/ check_rate_limit_query(p, TEST_SESSION_TOKEN, "save_chat")
           \/ check_rate_limit_create(p)
           \/ check_rate_limit_reset(p)
           \/ check_rate_limit_reject(p)
           \/ check_rate_limit_increment(p)
    \/ Tick(InstantsConc)

SpecRateLimitConc == Init /\ [][NextRateLimitConc]_vars

\* issue and consumption of verification tokens, requests one at a time
NextAuthSeq ==
    \/ \E email \in EmailInputs, consent \in BOOLEAN :
           Quiescent /\ signup_query(1, email, consent)
    \/ signup_user(1)
    \/ signup_token(1)
    \/ \E email \in EmailInputs : Quiescent /\ resend_verification(1, email)
    \/ \E token \in TokenInputs : Quiescent /\ verify_query(1, token)
    \/ verify_commit(1)
    \/ Quiescent /\ Tick(InstantsAuth)

SpecAuthSeq == Init /\ [][NextAuthSeq]_vars

\* validation of session credentials, requests one at a time
NextSessionSeq ==
    \/ Quiescent /\ verify_query(1, TEST_VERIFICATION_TOKEN)
    \/ verify_commit(1)
    \/ \E authorization \in Headers :
           Quiescent /\ session_check_query(1, authorization)
    \/ session_check_commit(1)
    \/ \E authorization \in Headers :
           Quiescent /\ refresh_token_query(1, authorization)
    \/ refresh_token_commit(1)
    \/ Quiescent /\ Tick(InstantsSession)

SpecSessionSeq == Init /\ [][NextSessionSeq]_vars

\* verification with the requests of two workers interleaved
NextAuthConc ==
    \/ \E p \in {1, 2} :
           \/ signup_query(p, <<"a", "@", "b", ".", "c">>, TRUE)
           \/ signup_user(p)
           \/ signup_token(p)
           \/ \E token \in {TEST_VERIFICATION_TOKEN, <<"v1">>} : verify_query(p, token)
           \/ verify_commit(p)
    \/ Tick({0, 1, Minutes(TOKEN_TTL_MINUTES) + 1})

SpecAuthConc == Init /\ [][NextAuthConc]_vars

\* instants of the handler runs: inside the first window and around its end
InstantsHandler == {0, 1, Seconds(window_seconds), Seconds(window_seconds) + 1}

HandlerHeaders == {None, Some(BearerPrefix \o TEST_SESSION_TOKEN),
                   Some(BearerPrefix \o <<"zz">>)}

\* the rate-limited endpoints, requests one at a time, over a store that
\* may stop answering at any moment
NextHandlerSeq ==
    \/ \E authorization \in HandlerHeaders :
           Quiescent /\ save_chat_auth(1, authorization)
    \/ \E authorization \in HandlerHeaders :
           Quiescent /\ personalize_auth(1, authorization)
    \/ handler_check_rate_limit(1)
    \/ check_rate_limit_create(1)
    \/ check_rate_limit_reset(1)
    \/ check_rate_limit_reject(1)
    \/ check_rate_limit_increment(1)
    \/ check_rate_limit_unavailable(1)
    \/ save_chat_commit(1)
    \/ personalize_result(1)
    \/ StoreOutage
    \/ Quiescent /\ Tick(InstantsHandler)

SpecHandlerSeq == Init /\ [][NextHandlerSeq]_vars

\* limits a caller passes explicitly
LimitInputs == {0, 1}

\* the rate limiter with its administrative reset, requests one at a time,
\* and its status query, which a second worker runs at any moment
NextRateLimitAdmin ==
    \/ Quiescent /\ check_rate_limit_query(1, TEST_SESSION_TOKEN, "save_chat")
    \/ \E limit \in LimitInputs :
           Quiescent /\ check_rate_limit_query_with(1, TEST_SESSION_TOKEN, "chat", limit)
    \/ check_rate_limit_create(1)
    \/ check_rate_limit_reset(1)
    \/ check_rate_limit_reject(1)
    \/ check_rate_limit_increment(1)
    \/ \E action \in RLActions :
           Quiescent /\ reset_rate_limit_query(1, TEST_SESSION_TOKEN, action)
    \/ reset_rate_limit_commit(1)
    \/ get_rate_limit_status(2, TEST_SESSION_TOKEN)
    \/ Quiescent /\ Tick(InstantsConc)

SpecRateLimitAdmin == Init /\ [][NextRateLimitAdmin]_vars

\* the administrative reset next to the interleaved requests of two workers
NextRateLimitResetConc ==
    \/ \E p \in {1, 2} :
           \/ check_rate_limit_query(p, TEST_SESSION_TOKEN, "save_chat")
           \/ check_rate_limit_create(p)
           \/ check_rate_limit_reset(p)
           \/ check_rate_limit_reject(p)
           \/ check_rate_limit_increment(p)
    \/ reset_rate_limit_query(3, TEST_SESSION_TOKEN, "save_chat")
    \/ reset_rate_limit_commit(3)
    \/ Tick(InstantsConc)

SpecRateLimitResetConc == Init /\ [][NextRateLimitResetConc]_vars

\* verification across restarts of the backend, requests one at a time
NextRestartSeq ==
    \/ \E token \in {TEST_VERIFICATION_TOKEN, <<"zz">>} :
           Quiescent /\ verify_query(1, token)
    \/ verify_commit(1)
    \/ startup
    \/ Quiescent /\ Tick(InstantsAuth)

SpecRestartSeq == Init /\ [][NextRestartSeq]_vars

\* the other (session token, action) pairs next to the seeded token's
\* save_chat: another action of that token, the same action of another token
FramePairs == {<<TEST_SESSION_TOKEN, "chat">>, <<<<"s1">>, "save_chat">>}

\* the rate limiter with requests for several pairs interleaved: one worker
\* serves the seeded token's save_chat, a second the other pairs, and a third
\* runs the administrative reset
NextRateLimitFrame ==
    \/ check_rate_limit_query(1, TEST_SESSION_TOKEN, "save_chat")
    \/ \E pair \in FramePairs : check_rate_limit_query(2, pair[1], pair[2])
    \/ \E p \in {1, 2} :
           \/ check_rate_limit_create(p)
           \/ check_rate_limit_reset(p)
           \/ check_rate_limit_reject(p)
           \/ check_rate_limit_increment(p)
    \/ reset_rate_limit_query(3, TEST_SESSION_TOKEN, "save_chat")
    \/ reset_rate_limit_commit(3)
    \/ Tick(InstantsConc)

SpecRateLimitFrame == Init /\ [][NextRateLimitFrame]_vars

\* credentials of two sessions of one user: the seeded one and the first
\* that a refresh or a verify adds
QuotaHeaders ==
    {Some(BearerPrefix \o TEST_SESSION_TOKEN), Some(BearerPrefix \o <<"s1">>)}

\* instants of the quota runs: inside the first window and past its end
InstantsQuota == {0, Seconds(window_seconds) + 1}

\* the rate-limited endpoints called with several tokens of one user, which
\* obtains new tokens by refresh and by verify; requests one at a time
NextTokenQuota ==
    \/ Quiescent /\ verify_query(1, TEST_VERIFICATION_TOKEN)
    \/ verify_commit(1)
    \/ \E authorization \in QuotaHeaders :
           Quiescent /\ refresh_token_query(1, authorization)
    \/ refresh_token_commit(1)
    \/ \E authorization \in QuotaHeaders :
           Quiescent /\ save_chat_auth(1, authorization)
    \/ \E authorization \in QuotaHeaders :
           Quiescent /\ personalize_auth(1, authorization)
    \/ handler_check_rate_limit(1)
    \/ check_rate_limit_create(1)
    \/ check_rate_limit_reset(1)
    \/ check_rate_limit_reject(1)
    \/ check_rate_limit_increment(1)
    \/ save_chat_commit(1)
    \/ personalize_result(1)
    \/ Quiescent /\ Tick(InstantsQuota)

SpecTokenQuota == Init /\ [][NextTokenQuota]_vars

\* the limit a caller passes for chat in the burst runs
BurstLimit == 1

\* one token, requests one at a time around the window edges: save_chat
\* under its configured limit and chat under the explicit limit BurstLimit
NextRateLimitBurst ==
    \/ Quiescent /\ check_rate_limit_query(1, TEST_SESSION_TOKEN, "save_chat")
    \/ Quiescent /\ check_rate_limit_query_with(1, TEST_SESSION_TOKEN, "chat",
                                                BurstLimit)
    \/ check_rate_limit_create(1)
    \/ check_rate_limit_reset(1)
    \/ check_rate_limit_reject(1)
    \/ check_rate_limit_increment(1)
    \/ Quiescent /\ Tick(InstantsRL)

SpecRateLimitBurst == Init /\ [][NextRateLimitBurst]_vars

\* two actions of one token with different limits: one worker serves chat,
\* a second save_chat, and a third runs the administrative reset of chat
NextRateLimitCross ==
    \/ check_rate_limit_query(1, TEST_SESSION_TOKEN, "chat")
    \/ check_rate_limit_query(2, TEST_SESSION_TOKEN, "save_chat")
    \/ \E p \in {1, 2} :
           \/ check_rate_limit_create(p)
           \/ check_rate_limit_reset(p)
           \/ check_rate_limit_reject(p)
           \/ check_rate_limit_increment(p)
    \/ reset_rate_limit_query(3, TEST_SESSION_TOKEN, "chat")
    \/ reset_rate_limit_commit(3)
    \/ Tick(InstantsConc)

SpecRateLimitCross == Init /\ [][NextRateLimitCross]_vars

\* every action name with the limit its name selects, requests one at a
\* time, and the status query between them
NextRateLimitLimits ==
    \/ \E action \in Actions :
           Quiescent /\ check_rate_limit_query(1, TEST_SESSION_TOKEN, action)
    \/ check_rate_limit_create(1)
    \/ check_rate_limit_reset(1)
    \/ check_rate_limit_reject(1)
    \/ check_rate_limit_increment(1)
    \/ Quiescent /\ get_rate_limit_status(1, TEST_SESSION_TOKEN)
    \/ Quiescent /\ Tick(InstantsConc)

SpecRateLimitLimits == Init /\ [][NextRateLimitLimits]_vars

\* headers presented to the optional-auth endpoint and to the endpoints that
\* require a credential: absent, empty, malformed, unknown and the seeded
\* session's
AnalyticsHeaders ==
    {None, Some(<<>>),
     Some(LowerPrefix \o TEST_SESSION_TOKEN),
     Some(BearerPrefix \o <<"zz">>),
     Some(BearerPrefix \o TEST_SESSION_TOKEN)}

\* instants before and after the expiry of the seeded session
InstantsAnalytics == {0, Hours(TEST_SESSION_HOURS), Hours(TEST_SESSION_HOURS) + 1}

\* every endpoint that reads the Authorization header, requests one at a
\* time; save_chat and personalize receive the credentials that
\* validate_token rejects (the requests they accept are those of
\* SpecHandlerSeq)
NextAnalyticsSeq ==
    \/ \E authorization \in AnalyticsHeaders, event_type \in EventTypeInputs :
           Quiescent /\ log_analytics_event_auth(1, authorization, event_type)
    \/ log_analytics_event_commit(1)
    \/ \E authorization \in AnalyticsHeaders :
           Quiescent /\ session_check_query(1, authorization)
    \/ session_check_commit(1)
    \/ \E authorization \in AnalyticsHeaders :
           Quiescent /\ verification_status(1, authorization)
    \/ \E authorization \in AnalyticsHeaders :
           Quiescent /\ refresh_token_query(1, authorization)
    \/ refresh_token_commit(1)
    \/ \E authorization \in AnalyticsHeaders :
           Quiescent /\ migrate_session(1, authorization)
    \/ \E authorization \in AnalyticsHeaders :
           /\ Quiescent
           /\ validate_token(authorization).code # "OK"
           /\ save_chat_auth(1, authorization)
    \/ \E authorization \in AnalyticsHeaders :
           /\ Quiescent
           /\ validate_token(authorization).code # "OK"
           /\ personalize_auth(1, authorization)
    \/ Quiescent /\ Tick(InstantsAnalytics)

SpecAnalyticsSeq == Init /\ [][NextAnalyticsSeq]_vars

\* ================================================================== claims
HistIdx(token, action) ==
    {i \in 1..Len(rl_history) :
        rl_history[i].session_token = token /\ rl_history[i].action = action}

\* the earliest request time among the recorded calls of a key
FirstAt(token, action) ==
    Min({rl_history[i].at : i \in HistIdx(token, action)})

SessionsVia(token) == {i \in 1..Len(sessions) : sessions[i].via = token}

TokenIds(token) ==
    {i \in 1..Len(verification_tokens) : verification_tokens[i].token = token}

\* request p takes a step of the handler op out of the idle position
Starts(p, op) ==
    /\ pc[p] = "idle"
    /\ req'[p].op = op
    /\ <<pc[p], req[p], resp[p]>> # <<pc'[p], req'[p], resp'[p]>>

\* C1: of the check_rate_limit calls of one key that fall into one window
\* (request times no later than W after the key's first request) at most
\* max_requests are allowed, however the calls interleave.
C1_AtMostLimitPerWindow ==
    \A i \in 1..Len(rl_history) :
        LET e == rl_history[i]
            idx == HistIdx(e.session_token, e.action)
        IN Cardinality({j \in idx :
                           /\ rl_history[j].allowed
                           /\ rl_history[j].at <=
                                  FirstAt(e.session_token, e.action)
                                  + Seconds(window_seconds)})
               <= max_requests(e.action)

\* C2: at most one session is ever created from one verification token,
\* however two verify requests for it interleave.
C2_OneSessionPerToken ==
    \A i \in 1..Len(verification_tokens) :
        Cardinality(SessionsVia(verification_tokens[i].token)) <= 1

\* C3: with requests handled one at a time, a verify of an unused, unexpired
\* token issued by signup goes on to create exactly one session and return
\* its token; a verify of a signup token already used fails and creates no
\* session.
C3_SignupTokenConsumedOnce ==
    [][\A p \in Procs :
          /\ Starts(p, "verify") =>
                \A i \in TokenIds(req'[p].token) :
                    verification_tokens[i].origin = "signup" =>
                        /\ verification_tokens[i].used =>
                              /\ pc'[p] = "idle"
                              /\ resp'[p].code = "INVALID_TOKEN"
                              /\ sessions' = sessions
                        /\ (~verification_tokens[i].used
                            /\ now <= verification_tokens[i].expires_at) =>
                              pc'[p] = "verify_commit"
          /\ (pc[p] = "verify_commit" /\ pc'[p] = "idle") =>
                LET v == verification_tokens[req[p].verification]
                IN v.origin = "signup" =>
                      /\ SessionsVia(v.token) = {}
                      /\ resp'[p].code = "OK"
                      /\ Len(sessions') = Len(sessions) + 1
                      /\ sessions'[Len(sessions')].via = v.token
                      /\ sessions'[Len(sessions')].session_token
                             = resp'[p].session_token
                      /\ verification_tokens'[req[p].verification].used
      ]_vars

C3_Witness ==
    \E p \in Procs :
        /\ pc[p] = "idle"
        /\ req[p].op = "verify"
        /\ resp[p].code = "INVALID_TOKEN"
        /\ \E i \in TokenIds(req[p].token) :
              /\ verification_tokens[i].origin = "signup"
              /\ verification_tokens[i].used
              /\ Cardinality(SessionsVia(req[p].token)) = 1

\* C4: a verify of a stored unused token at now > expires_at fails with
\* TOKEN_EXPIRED, creates no session and leaves the token unused; at
\* now <= expires_at it is not rejected as expired.
C4_ExpiredTokenRejected ==
    [][\A p \in Procs :
          /\ Starts(p, "verify") =>
                \A i \in TokenIds(req'[p].token) :
                    ~verification_tokens[i].used =>
                        /\ now > verification_tokens[i].expires_at =>
                              /\ pc'[p] = "idle"
                              /\ resp'[p].code = "TOKEN_EXPIRED"
                              /\ sessions' = sessions
                              /\ verification_tokens' = verification_tokens
                        /\ now <= verification_tokens[i].expires_at =>
                              resp'[p].code # "TOKEN_EXPIRED"
          /\ pc[p] = "verify_commit" => resp'[p].code # "TOKEN_EXPIRED"
      ]_vars

C4_Witness ==
    \E p \in Procs :
        /\ pc[p] = "idle"
        /\ req[p].op = "verify"
        /\ resp[p].code = "TOKEN_EXPIRED"
        /\ req[p].now = Seconds(601)
        /\ \E i \in TokenIds(req[p].token) :
              /\ verification_tokens[i].expires_at = Minutes(TOKEN_TTL_MINUTES)
              /\ ~verification_tokens[i].used
              /\ SessionsVia(req[p].token) = {}

\* C5: with requests handled one at a time and no counter row at the start,
\* the n-th call of a key made within W seconds of the key's first call is
\* allowed for n <= max_requests and, for n = max_requests + 1, rejected
\* with 1 <= retry_after <= W.
C5_FirstLimitCallsAllowed ==
    \A i \in 1..Len(rl_history) :
        LET e == rl_history[i]
            idx == HistIdx(e.session_token, e.action)
            n == Cardinality({j \in idx : j <= i})
        IN e.at <= rl_history[Min(idx)].at + Seconds(window_seconds) =>
              /\ n <= max_requests(e.action) => e.allowed
              /\ n = max_requests(e.action) + 1 =>
                    /\ ~e.allowed
                    /\ 1 <= e.retry_after
                    /\ e.retry_after <= window_seconds

C5_Witness ==
    \E i \in 1..Len(rl_history) :
        LET e == rl_history[i]
            idx == HistIdx(e.session_token, e.action)
        IN /\ Cardinality({j \in idx : j <= i}) = max_requests(e.action) + 1
           /\ e.at = rl_history[Min(idx)].at + Seconds(window_seconds)
           /\ ~e.allowed

\* C6: a call for a key whose counter is at its limit, made at
\* now > window_start + W, is allowed and leaves count = 1 and
\* window_start = now; and the rate_limits table changes only in a step in
\* which a check_rate_limit call is allowed, never by the passing of time.
C6_LazyReset ==
    [][/\ \A p \in Procs :
             (pc[p] = "rl_decide" /\ pc'[p] = "idle") =>
                 LET row == first_rate_limit(req[p].session_token, req[p].action)
                 IN (/\ row # NoRow
                     /\ row.count >= max_requests(req[p].action)
                     /\ req[p].now > row.window_start + Seconds(window_seconds)) =>
                        /\ resp'[p].code = "OK"
                        /\ resp'[p].allowed
                        /\ \E k \in 1..Len(rate_limits') :
                              /\ rate_limits'[k].id = row.id
                              /\ rate_limits'[k].count = 1
                              /\ rate_limits'[k].window_start = req[p].now
       /\ rate_limits' # rate_limits =>
             \E p \in Procs : /\ pc[p] = "rl_decide"
                              /\ pc'[p] = "idle"
                              /\ resp'[p].code = "OK"
                              /\ resp'[p].allowed
      ]_vars

C6_Witness ==
    \E i, j \in 1..Len(rl_history) :
        /\ i < j
        /\ rl_history[i].session_token = rl_history[j].session_token
        /\ rl_history[i].action = rl_history[j].action
        /\ ~rl_history[i].allowed
        /\ rl_history[j].allowed
        /\ LET row == first_rate_limit(rl_history[j].session_token,
                                       rl_history[j].action)
           IN /\ row # NoRow
              /\ row.count = 1
              /\ row.window_start = rl_history[j].at
              /\ row.window_start > rl_history[i].at

\* C7: the count of every counter row equals the number of allowed calls of
\* its key made since the row's window_start, also under interleaving.
C7_CountEqualsAllowed ==
    \A k \in 1..Len(rate_limits) :
        rate_limits[k].count =
            Cardinality({j \in HistIdx(rate_limits[k].session_token,
                                       rate_limits[k].action) :
                            /\ rl_history[j].allowed
                            /\ rl_history[j].at >= rate_limits[k].window_start})

\* C8: there is at most one rate_limits row per (session token, action).
C8_OneRowPerKey ==
    \A i, j \in 1..Len(rate_limits) :
        (/\ rate_limits[i].session_token = rate_limits[j].session_token
         /\ rate_limits[i].action = rate_limits[j].action) => i = j

\* C9: validate_token accepts no credential whose session row has an
\* expires_at in the past.
C9_ExpiredSessionRejected ==
    \A authorization \in Headers :
        validate_token(authorization).code = "OK" =>
            LET s == sessions[validate_token(authorization).session]
            IN s.expires_at = NULL \/ now <= s.expires_at

\* C10: an absent credential or one not starting with "Bearer " ends the
\* request with UNAUTHORIZED, a "Bearer " credential whose token matches no
\* session row ends it with SESSION_EXPIRED; either way no session is
\* resolved and no table changes.
C10_DistinctAuthFailures ==
    [][\A p \in Procs :
          Starts(p, "session_check") =>
              LET h == req'[p].authorization
              IN /\ h \in {None} \cup UNION {Malformed(t) : t \in HeaderTokens} =>
                       /\ pc'[p] = "idle"
                       /\ resp'[p] = Error("UNAUTHORIZED")
                       /\ req'[p].session = 0
                       /\ store' = store
                 /\ (\E t \in HeaderTokens :
                        /\ h = Some(BearerPrefix \o t)
                        /\ \A k \in 1..Len(sessions) :
                              sessions[k].session_token # t) =>
                       /\ pc'[p] = "idle"
                       /\ resp'[p] = Error("SESSION_EXPIRED")
                       /\ req'[p].session = 0
                       /\ store' = store
      ]_vars

C10_Witness ==
    \E p \in Procs :
        /\ pc[p] = "idle"
        /\ req[p].op = "session_check"
        /\ req[p].authorization = Some(BearerPrefix \o <<"zz">>)
        /\ resp[p] = Error("SESSION_EXPIRED")

\* C11: a successful refresh returns a token that differs from every stored
\* session token and that validates to the user of the credential presented;
\* the credential presented validates as before, and so does every
\* credential that validated before any step, so after any number of
\* further refreshes
SessionTokens == {<<SessionTokenNames[i]>> : i \in 1..Len(SessionTokenNames)}
                     \cup {TEST_SESSION_TOKEN}
Bearer(t) == Some(BearerPrefix \o t)
C11_RefreshKeepsOldToken ==
    [][/\ \A p \in Procs :
            pc[p] = "refresh_commit" /\ pc'[p] = "idle" =>
                /\ resp'[p].code = "OK"
                /\ \A i \in 1..Len(sessions) :
                       sessions[i].session_token # resp'[p].token
                /\ \E t \in SessionTokens :
                       /\ t = resp'[p].token
                       /\ validate_token(Bearer(t))'.code = "OK"
                       /\ validate_token(req[p].authorization).code = "OK"
                       /\ sessions'[validate_token(Bearer(t))'.session].user_id
                              = sessions[validate_token(req[p].authorization).session].user_id
        /\ \A t \in SessionTokens :
               validate_token(Bearer(t)).code = "OK" =>
                   validate_token(Bearer(t))' = validate_token(Bearer(t))]_vars
C11_Witness ==
    /\ Len(sessions) = 3
    /\ \A i \in 1..Len(sessions) : sessions[i].via = <<>>
    /\ req[1].op = "refresh_token"
    /\ req[1].authorization = Bearer(<<"s1">>)
    /\ resp[1].code = "OK"

\* C12: verify reports three distinct failures: a token that matches no
\* record fails as not found (INVALID_TOKEN), an unused token past its expiry
\* fails with TOKEN_EXPIRED, and a token whose used flag is already true
\* fails with an error of its own, TOKEN_ALREADY_USED, not with the error of
\* an unknown token
C12_DistinctTokenFailures ==
    [][\A p \in Procs :
           Starts(p, "verify") =>
               LET ids == TokenIds(req'[p].token)
               IN  /\ ids = {} => resp'[p].code = "INVALID_TOKEN"
                   /\ (ids # {} /\ \A i \in ids :
                           /\ ~verification_tokens[i].used
                           /\ now > verification_tokens[i].expires_at)
                          => resp'[p].code = "TOKEN_EXPIRED"
                   /\ (ids # {} /\ \A i \in ids :
                           /\ verification_tokens[i].used
                           /\ now <= verification_tokens[i].expires_at)
                          => resp'[p].code = "TOKEN_ALREADY_USED"]_vars

\* C13: a SavedChat row is written, and a personalize request answers with
\* recommendations, only by a request whose credential validates and for
\* which the latest check_rate_limit verdict, for the credential's session
\* token and the request's action, is allowed; a request whose verdict is
\* rejected answers rate_limited with the verdict's retry_after and writes
\* no SavedChat row
Returns(p, op) ==
    /\ pc[p] = "rl_return"
    /\ pc'[p] = "idle"
    /\ req[p].op = op
Cleared(p) ==
    /\ validate_token(req[p].authorization).code = "OK"
    /\ rl_history # <<>>
    /\ rl_history[Len(rl_history)].allowed
    /\ rl_history[Len(rl_history)].action = req[p].op
    /\ rl_history[Len(rl_history)].session_token
           = SliceFrom(req[p].authorization.str, 7)
C13_EffectOnlyWhenAllowed ==
    [][/\ saved_chats' # saved_chats =>
              \E p \in Procs :
                  /\ Returns(p, "save_chat")
                  /\ Cleared(p)
                  /\ Len(saved_chats') = Len(saved_chats) + 1
                  /\ saved_chats'[Len(saved_chats')].user_id
                         = sessions[validate_token(req[p].authorization).session].user_id
       /\ \A p \in Procs :
              /\ (/\ pc[p] # "idle"
                  /\ pc'[p] = "idle"
                  /\ req[p].op = "personalize"
                  /\ resp'[p].code = "OK")
                     => (Returns(p, "personalize") /\ Cleared(p))
              /\ (/\ Returns(p, "save_chat") \/ Returns(p, "personalize")
                  /\ resp[p].code = "OK"
                  /\ ~resp[p].allowed)
                     => (/\ resp'[p] = [code |-> "rate_limited",
                                        retry_after |-> resp[p].retry_after]
                         /\ resp[p].retry_after
                                = rl_history[Len(rl_history)].retry_after
                         /\ resp[p].retry_after >= 1
                         /\ saved_chats' = saved_chats)]_vars
C13_Witness ==
    /\ Len(saved_chats) = RATE_LIMIT_SAVE_CHAT
    /\ req[1].op = "save_chat"
    /\ pc[1] = "idle"
    /\ resp[1].code = "rate_limited"

CeilSeconds(d) ==
    IF d >= 0 THEN (d + TicksPerSecond - 1) \div TicksPerSecond
    ELSE -((-d) \div TicksPerSecond)
LastCall == rl_history[Len(rl_history)]
C15_RetryAfterIsCeiling ==
    (rl_history # <<>> /\ ~LastCall.allowed) =>
        LastCall.retry_after =
            Max(1, CeilSeconds(
                first_rate_limit(LastCall.session_token, LastCall.action).window_start
                    + Seconds(window_seconds) - LastCall.at))

\* C16: when a call of a key is rejected at time t with retry_after N and
\* the key's next call comes at time t + N, that call is allowed
C16_RetryAfterIsLongEnough ==
    \A i, j \in 1..Len(rl_history) :
        (/\ i < j
         /\ rl_history[j].session_token = rl_history[i].session_token
         /\ rl_history[j].action = rl_history[i].action
         /\ \A k \in (i + 1)..(j - 1) :
                \/ rl_history[k].session_token # rl_history[i].session_token
                \/ rl_history[k].action # rl_history[i].action
         /\ ~rl_history[i].allowed
         /\ rl_history[j].at = rl_history[i].at + Seconds(rl_history[i].retry_after))
            => rl_history[j].allowed

\* a check_rate_limit call of request p returns in this step
Decides(p) ==
    /\ pc[p] = "rl_decide"
    /\ pc'[p] # "rl_decide"
    /\ resp'[p].code = "OK"
\* the key's counter is at its limit and the time of the call satisfies InWindow
AtLimit(p, InWindow(_, _)) ==
    LET row == first_rate_limit(req[p].session_token, req[p].action)
    IN  IF row = NoRow THEN FALSE
        ELSE /\ row.count >= max_requests(req[p].action)
             /\ InWindow(req[p].now, row.window_start + Seconds(window_seconds))
Before(t, end) == t < end
NotAfter(t, end) == t <= end

\* C17 as stated: a request is rejected exactly when the key's counter has
\* count >= limit and now < window_start + W, so a request at
\* now = window_start + W with the counter at its limit is not rejected
C17_RejectedBeforeWindowEnd ==
    [][\A p \in Procs :
           Decides(p) => (~resp'[p].allowed <=> AtLimit(p, Before))]_vars

\* C17 amended: a request is rejected exactly when the key's counter has
\* count >= limit and now <= window_start + W; a request at
\* now = window_start + W with the counter at its limit is still rejected
C17_RejectedUpToWindowEnd ==
    [][\A p \in Procs :
           Decides(p) => (~resp'[p].allowed <=> AtLimit(p, NotAfter))]_vars
C17_Witness ==
    /\ rl_history # <<>>
    /\ ~LastCall.allowed
    /\ LastCall.at = first_rate_limit(LastCall.session_token,
                                      LastCall.action).window_start
                         + Seconds(window_seconds)

\* C18: a check_rate_limit call for a pair that has no counter row appends
\* the row with count = 1 and window_start = now, leaves the other rows
\* alone and returns allowed with retry_after 0, whatever limit applies
C18_FirstCallCreatesRow ==
    [][\A p \in Procs :
           (/\ pc[p] = "rl_decide"
            /\ pc'[p] # "rl_decide"
            /\ RateLimitIds(req[p].session_token, req[p].action) = {})
               => (/\ resp'[p] = [code |-> "OK", allowed |-> TRUE, retry_after |-> 0]
                   /\ Len(rate_limits') = Len(rate_limits) + 1
                   /\ SubSeq(rate_limits', 1, Len(rate_limits)) = rate_limits
                   /\ rate_limits'[Len(rate_limits')].session_token = req[p].session_token
                   /\ rate_limits'[Len(rate_limits')].action = req[p].action
                   /\ rate_limits'[Len(rate_limits')].count = 1
                   /\ rate_limits'[Len(rate_limits')].window_start = now)]_vars
C18_Witness ==
    /\ pc[1] = "idle"
    /\ req[1].op = "check_rate_limit"
    /\ req[1].max_requests = 0
    /\ req[1].rate_limit = NoRow
    /\ resp[1] = [code |-> "OK", allowed |-> TRUE, retry_after |-> 0]
    /\ first_rate_limit(req[1].session_token, req[1].action).count = 1

\* what the counter rows and the clock make of a call with the default limit
Verdict(token, action) ==
    LET row == first_rate_limit(token, action)
    IN  IF row = NoRow THEN <<TRUE, 0>>
        ELSE IF now - row.window_start > Seconds(window_seconds) THEN <<TRUE, 0>>
        ELSE IF row.count < max_requests(action) THEN <<TRUE, 0>>
        ELSE <<FALSE, Max(1, IntSeconds(row.window_start + Seconds(window_seconds) - now))>>

\* C19: a get_rate_limit_status call, whenever it runs, leaves every counter
\* row as it is (count and window_start included) and leaves every other
\* request where it is, so the verdict of any later check_rate_limit, which
\* the rows and the clock determine, is the same as without the call
C19_StatusIsReadOnly ==
    [][\A p \in Procs :
           /\ Starts(p, "get_rate_limit_status") =>
                  (/\ rate_limits' = rate_limits
                   /\ store' = store
                   /\ rl_history' = rl_history
                   /\ \A q \in Procs \ {p} :
                          pc'[q] = pc[q] /\ req'[q] = req[q] /\ resp'[q] = resp[q]
                   /\ \A token \in RLTokens, action \in Actions :
                          Verdict(token, action)' = Verdict(token, action))
           /\ (Decides(p) /\ req[p].max_requests = max_requests(req[p].action)) =>
                  <<resp'[p].allowed, resp'[p].retry_after>>
                      = Verdict(req[p].session_token, req[p].action)]_vars
C19_Witness ==
    /\ req[2].op = "get_rate_limit_status"
    /\ "save_chat" \in DOMAIN resp[2].status
    /\ resp[2].status["save_chat"].limited
    /\ resp[2].status["save_chat"].count = RATE_LIMIT_SAVE_CHAT
    /\ pc[1] = "rl_decide"
    /\ req[1].action = "save_chat"

\* C20: when reset_rate_limit returns, no counter row exists for its pair
\* and the rows of the other pairs are as before; a reset of a pair without
\* a row changes nothing; and a check_rate_limit that finds no row for its
\* pair is allowed and leaves a fresh row with count = 1
OtherRows(rows, token, action) ==
    SelectSeq(rows, LAMBDA r : r.session_token # token \/ r.action # action)
C20_ResetRemovesCounter ==
    [][\A p \in Procs :
           /\ (/\ req'[p].op = "reset_rate_limit"
               /\ pc'[p] = "idle"
               /\ <<pc[p], req[p], resp[p]>> # <<pc'[p], req'[p], resp'[p]>>)
                  => (/\ \A i \in 1..Len(rate_limits') :
                             \/ rate_limits'[i].session_token # req'[p].session_token
                             \/ rate_limits'[i].action # req'[p].action
                      /\ OtherRows(rate_limits', req'[p].session_token, req'[p].action)
                             = OtherRows(rate_limits, req'[p].session_token,
                                         req'[p].action)
                      /\ RateLimitIds(req'[p].session_token, req'[p].action) = {}
                             => rate_limits' = rate_limits)
           /\ (/\ Decides(p)
               /\ RateLimitIds(req[p].session_token, req[p].action) = {})
                  => (/\ resp'[p].allowed
                      /\ rate_limits'[Len(rate_limits')].count = 1
                      /\ rate_limits'[Len(rate_limits')].session_token
                             = req[p].session_token
                      /\ rate_limits'[Len(rate_limits')].action = req[p].action)]_vars

\* C21: no two session rows ever carry the same session token, and a step
\* (a verify or a refresh in particular) never removes a session row nor
\* changes its token, its user or its expiry, so every credential that
\* validated keeps validating and a user may hold several sessions at once
C21_UniqueTokensManySessions ==
    /\ [](\A i, j \in 1..Len(sessions) :
              sessions[i].session_token = sessions[j].session_token => i = j)
    /\ [][/\ Len(sessions') >= Len(sessions)
          /\ \A i \in 1..Len(sessions) :
                 /\ sessions'[i].session_token = sessions[i].session_token
                 /\ sessions'[i].user_id = sessions[i].user_id
                 /\ sessions'[i].expires_at = sessions[i].expires_at
          /\ \A t \in SessionTokens :
                 validate_token(Bearer(t)).code = "OK" =>
                     validate_token(Bearer(t))'.code = "OK"]_vars
C21_Witness ==
    /\ Len(sessions) = 3
    /\ \A i \in 1..Len(sessions) :
           /\ sessions[i].user_id = 1
           /\ validate_token(Bearer(sessions[i].session_token)).code = "OK"
           /\ validate_token(Bearer(sessions[i].session_token)).session = i
    /\ sessions[2].via = TEST_VERIFICATION_TOKEN
    /\ sessions[3].via = <<>>
    /\ Quiescent

\* C22: a verification token that is used or expired stays so: no step
\* clears its used flag or moves its expires_at later, and no verify
\* succeeds with a token that is used or past its expiry
C22_DeadTokenStaysDead ==
    [][/\ \A i \in 1..Len(verification_tokens) :
              (verification_tokens[i].used \/ now > verification_tokens[i].expires_at)
                  => (/\ Len(verification_tokens') >= i
                      /\ verification_tokens[i].used => verification_tokens'[i].used
                      /\ verification_tokens'[i].expires_at
                             <= verification_tokens[i].expires_at)
       /\ \A p \in Procs :
              (pc[p] = "verify_commit" /\ pc'[p] = "idle" /\ resp'[p].code = "OK")
                  => (/\ ~verification_tokens[req[p].verification].used
                      /\ now <= verification_tokens[req[p].verification].expires_at)]_vars

\* C23: every verification token that signup or resend stores has
\* used = false and expires_at = creation time + 10 minutes; a verify that
\* found such a token unused and unexpired succeeds with a new session; and
\* a verify never ends otherwise than with success, not found
\* (INVALID_TOKEN), TOKEN_EXPIRED or TOKEN_ALREADY_USED
C23_IssuedTokenVerifies ==
    [][/\ Len(verification_tokens') > Len(verification_tokens) =>
              (/\ Len(verification_tokens') = Len(verification_tokens) + 1
               /\ ~verification_tokens'[Len(verification_tokens')].used
               /\ verification_tokens'[Len(verification_tokens')].expires_at
                      = now + Minutes(10))
       /\ \A p \in Procs :
              /\ (pc[p] = "verify_commit" /\ pc'[p] = "idle")
                     => (/\ resp'[p].code = "OK"
                         /\ Len(sessions') = Len(sessions) + 1
                         /\ sessions'[Len(sessions')].session_token
                                = resp'[p].session_token)
              /\ (req'[p].op = "verify" /\ pc[p] # pc'[p] /\ pc'[p] = "idle")
                     => resp'[p].code \in {"OK", "INVALID_TOKEN", "TOKEN_EXPIRED",
                                           "TOKEN_ALREADY_USED"}
              /\ (Starts(p, "verify") /\ req'[p].op = "verify"
                  /\ pc'[p] = "idle")
                     => resp'[p].code \in {"INVALID_TOKEN", "TOKEN_EXPIRED",
                                           "TOKEN_ALREADY_USED"}]_vars

\* C24: in every store state a token has used = true exactly when a session
\* that a verify of this token created for the token's user is stored; a
\* verify that ends with an error leaves every used flag as it was and
\* creates no session
C24_UsedIffSessionCommitted ==
    /\ [](\A i \in 1..Len(verification_tokens) :
              verification_tokens[i].used <=>
                  \E j \in 1..Len(sessions) :
                      /\ sessions[j].via = verification_tokens[i].token
                      /\ sessions[j].user_id = first_user(verification_tokens[i].email))
    /\ [][\A p \in Procs :
              (req'[p].op = "verify" /\ pc[p] # pc'[p] /\ pc'[p] = "idle"
               /\ resp'[p].code # "OK")
                  => (/\ sessions' = sessions
                      /\ verification_tokens' = verification_tokens)]_vars

\* C25: every request that presents a credential and passes validate_token
\* (here session-check and refresh-token) leaves the last_activity of the
\* session it presented equal to the request time
C25_LastActivityTouched ==
    [][\A p \in Procs :
           (/\ pc[p] # "idle"
            /\ pc'[p] = "idle"
            /\ req[p].op \in {"session_check", "refresh_token"}
            /\ resp'[p].code = "OK")
               => sessions'[validate_token(req[p].authorization).session].last_activity
                      = now]_vars

\* the header is present and reads "Bearer " followed by a token
WellFormed(h) ==
    /\ ~h.is_none
    /\ Len(h.str) >= 7
    /\ SubSeq(h.str, 1, 7) = <<"B", "e", "a", "r", "e", "r", " ">>
\* the token of a well-formed header is the token of a stored session
Known(h) ==
    \E i \in 1..Len(sessions) :
        sessions[i].session_token = SubSeq(h.str, 8, Len(h.str))

\* C26: a refresh with an absent or malformed credential ends with
\* UNAUTHORIZED, one with a well-formed but unknown credential ends with
\* SESSION_EXPIRED; either way the response carries no token and the stored
\* sessions are unchanged
C26_RefreshRejectsBadCredential ==
    [][\A p \in Procs :
           (Starts(p, "refresh_token")
            /\ ~(WellFormed(req'[p].authorization) /\ Known(req'[p].authorization)))
               => (/\ pc'[p] = "idle"
                   /\ resp'[p].code = IF WellFormed(req'[p].authorization)
                                      THEN "SESSION_EXPIRED" ELSE "UNAUTHORIZED"
                   /\ "token" \notin DOMAIN resp'[p]
                   /\ sessions' = sessions)]_vars
C26_Witness ==
    /\ req[1].op = "refresh_token"
    /\ WellFormed(req[1].authorization)
    /\ ~Known(req[1].authorization)
    /\ resp[1].code = "SESSION_EXPIRED"
    /\ Len(sessions) > 1

\* a credential is valid when it is well formed and names a stored session
\* that has not expired
ValidCredential(h) ==
    /\ WellFormed(h)
    /\ \E i \in 1..Len(sessions) :
           /\ sessions[i].session_token = SubSeq(h.str, 8, Len(h.str))
           /\ (sessions[i].expires_at = NULL \/ now <= sessions[i].expires_at)
SessionUser(h) ==
    sessions[Min({i \in 1..Len(sessions) :
                     sessions[i].session_token = SubSeq(h.str, 8, Len(h.str))})].user_id
CredentialedOps ==
    {"session_check", "verification_status", "refresh_token",
     "migrate_session", "save_chat", "personalize"}

\* C27: the analytics endpoint never answers a credential with an error: it
\* logs exactly one event, with the user of the session when the credential
\* is valid and with no user when it is absent or invalid; every other
\* endpoint that takes a credential ends a request with an absent or
\* invalid one with UNAUTHORIZED or SESSION_EXPIRED
C27_OptionalAuthDegradesToAnonymous ==
    [][\A p \in Procs :
          /\ Starts(p, "log_analytics_event") => pc'[p] = "analytics_log"
          /\ (pc[p] = "analytics_log" /\ pc'[p] = "idle") =>
                 (/\ resp'[p].code = "OK"
                  /\ Len(analytics_events') = Len(analytics_events) + 1
                  /\ analytics_events'[Len(analytics_events')].user_id =
                         IF ValidCredential(req[p].authorization)
                         THEN SessionUser(req[p].authorization)
                         ELSE NULL)
          /\ \A op \in CredentialedOps :
                 (Starts(p, op) /\ ~ValidCredential(req'[p].authorization))
                     => (/\ pc'[p] = "idle"
                         /\ resp'[p].code \in {"UNAUTHORIZED", "SESSION_EXPIRED"})]_vars

\* the configured limit of an action name
ExpectedLimit(action) ==
    CASE action = "save_chat" -> RATE_LIMIT_SAVE_CHAT
      [] action = "personalize" -> RATE_LIMIT_PERSONALIZE
      [] OTHER -> RATE_LIMIT_MAX_REQUESTS

\* C28: a check_rate_limit call without an explicit limit is rejected exactly
\* when the row it read is inside its window with a count of at least
\* RATE_LIMIT_SAVE_CHAT for save_chat, RATE_LIMIT_PERSONALIZE for
\* personalize, RATE_LIMIT_MAX_REQUESTS for any other action, and
\* get_rate_limit_status reports that same number as max for each action
C28_LimitByAction ==
    [][\A p \in Procs :
          /\ Decides(p) =>
                 (~resp'[p].allowed <=>
                      (/\ req[p].rate_limit # NoRow
                       /\ req[p].rate_limit.count >= ExpectedLimit(req[p].action)
                       /\ req[p].now <= req[p].rate_limit.window_start
                                            + Seconds(RATE_LIMIT_WINDOW_SECONDS)))
          /\ Starts(p, "get_rate_limit_status") =>
                 (\A a \in DOMAIN resp'[p].status :
                      resp'[p].status[a].max = ExpectedLimit(a))]_vars
C28_Witness ==
    /\ req[1].op = "get_rate_limit_status"
    /\ DOMAIN resp[1].status = {"personalize", "chat"}
    /\ resp[1].status["personalize"].max = RATE_LIMIT_PERSONALIZE
    /\ resp[1].status["chat"].max = RATE_LIMIT_MAX_REQUESTS
    /\ \E i \in 1..Len(rl_history) :
           rl_history[i].action = "personalize" /\ ~rl_history[i].allowed

\* C29: a check_rate_limit call that returns allowed = True returns
\* retry_after = 0, and one that returns allowed = False returns a
\* retry_after of at least 1, also when less than a second of the window
\* remains
C29_RetryAfterSign ==
    [][\A p \in Procs :
          Decides(p) =>
              (/\ resp'[p].allowed => resp'[p].retry_after = 0
               /\ ~resp'[p].allowed => resp'[p].retry_after >= 1
               /\ rl_history' = Append(rl_history, rl_history'[Len(rl_history')])
               /\ rl_history'[Len(rl_history')].allowed = resp'[p].allowed
               /\ rl_history'[Len(rl_history')].retry_after = resp'[p].retry_after)]_vars
C29_Witness ==
    /\ pc[1] = "idle"
    /\ req[1].op = "check_rate_limit"
    /\ resp[1].code = "OK"
    /\ ~resp[1].allowed
    /\ resp[1].retry_after = 1
    /\ req[1].now = req[1].rate_limit.window_start + Seconds(window_seconds)
    /\ \E i \in 1..Len(rl_history) :
           rl_history[i].allowed /\ rl_history[i].retry_after = 0

\* C30: a check_rate_limit call leaves the rows of every other (session
\* token, action) pair as they are, in number, order and content: its query
\* writes nothing, and the step that completes it changes at most the rows
\* of its own pair
C30_OnlyOwnPairChanges ==
    [][\A p \in Procs :
          /\ Starts(p, "check_rate_limit") => rate_limits' = rate_limits
          /\ (pc[p] = "rl_decide" /\ pc'[p] # "rl_decide") =>
                 OtherRows(rate_limits', req[p].session_token, req[p].action)
                     = OtherRows(rate_limits, req[p].session_token, req[p].action)]_vars

\* C31: a check_rate_limit call that is rejected writes nothing: the key's
\* row keeps its count and its window_start, and so does every other row
C31_RejectedCallWritesNothing ==
    [][\A p \in Procs :
          (Decides(p) /\ ~resp'[p].allowed) =>
              (/\ rate_limits' = rate_limits
               /\ first_rate_limit(req[p].session_token, req[p].action)'
                      = first_rate_limit(req[p].session_token, req[p].action))]_vars
C31_Witness ==
    /\ rl_history # <<>>
    /\ ~LastCall.allowed
    /\ first_rate_limit(LastCall.session_token, LastCall.action).count
           = max_requests(LastCall.action)
    /\ first_rate_limit(LastCall.session_token, LastCall.action).window_start
           < LastCall.at

\* C32: with the configured limits, every counter row of every reachable
\* state has a count of at least 1 and at most the limit of its action,
\* whether the requests run one at a time or interleaved
C32_CountWithinLimit ==
    \A i \in 1..Len(rate_limits) :
        /\ 1 <= rate_limits[i].count
        /\ rate_limits[i].count <= ExpectedLimit(rate_limits[i].action)

\* the limit in force for an action in the burst runs
BurstLimitOf(action) ==
    IF action = "chat" THEN BurstLimit ELSE ExpectedLimit(action)
\* the calls of the key of call i that were allowed between call i and call j
AdmittedBetween(i, j) ==
    {k \in i..j : /\ rl_history[k].session_token = rl_history[i].session_token
                  /\ rl_history[k].action = rl_history[i].action
                  /\ rl_history[k].allowed}

\* C33: with the requests of a key handled one at a time, the calls of the
\* key allowed in any time span of length W number at most twice the limit
C33_AtMostTwoLimitsPerSpan ==
    \A i, j \in 1..Len(rl_history) :
        (/\ i <= j
         /\ rl_history[j].session_token = rl_history[i].session_token
         /\ rl_history[j].action = rl_history[i].action
         /\ rl_history[j].at - rl_history[i].at <= Seconds(RATE_LIMIT_WINDOW_SECONDS))
            => Cardinality(AdmittedBetween(i, j))
                   <= 2 * BurstLimitOf(rl_history[i].action)
\* a burst across a window edge: more calls than the limit are allowed
\* within a span shorter than W, the first of them in an older window
C33_Witness ==
    \E i, j \in 1..Len(rl_history) :
        /\ i < j
        /\ rl_history[i].action = "save_chat"
        /\ rl_history[j].action = "save_chat"
        /\ rl_history[j].at - rl_history[i].at < Seconds(RATE_LIMIT_WINDOW_SECONDS)
        /\ Cardinality(AdmittedBetween(i, j)) > RATE_LIMIT_SAVE_CHAT
        /\ rl_history[i].at
               < first_rate_limit(TEST_SESSION_TOKEN, "save_chat").window_start

\* C34: the limited flag that get_rate_limit_status reports for an action is
\* true exactly when a check_rate_limit call for the token and the action at
\* the same instant would be rejected
C34_LimitedAgreesWithCheck ==
    [][\A p \in Procs :
          Starts(p, "get_rate_limit_status") =>
              \A token \in RLTokens :
                  token = req'[p].session_token =>
                      \A a \in DOMAIN resp'[p].status :
                          resp'[p].status[a].limited <=> ~Verdict(token, a)[1]]_vars

\* the token in the credential a request presented
PresentedToken(p) == SubSeq(req[p].authorization.str, 8, Len(req[p].authorization.str))
RowsOf(rows, token, action) ==
    SelectSeq(rows, LAMBDA r : r.session_token = token /\ r.action = action)

\* C35: the session a refresh or a verify creates has a token without counter
\* rows, and creating it changes no counter; the first save_chat or
\* personalize request presented with a token is allowed whatever the
\* counters of the user's other tokens are, gets a row of its own with
\* count 1, and leaves the rows of the other tokens as they are
C35_CountersKeyedByToken ==
    [][\A p \in Procs :
          /\ (/\ pc[p] \in {"refresh_commit", "verify_commit"}
              /\ pc'[p] = "idle"
              /\ resp'[p].code = "OK") =>
                 (/\ rate_limits' = rate_limits
                  /\ Len(sessions') = Len(sessions) + 1
                  /\ \A i \in 1..Len(rate_limits) :
                         rate_limits[i].session_token
                             # sessions'[Len(sessions')].session_token)
          /\ (/\ pc[p] = "rl_decide"
              /\ pc'[p] # "rl_decide"
              /\ req[p].op \in {"save_chat", "personalize"}
              /\ RateLimitIds(PresentedToken(p), req[p].op) = {}) =>
                 (/\ resp'[p].code = "OK"
                  /\ resp'[p].allowed
                  /\ OtherRows(rate_limits', PresentedToken(p), req[p].op)
                         = rate_limits
                  /\ Len(RowsOf(rate_limits', PresentedToken(p), req[p].op)) = 1
                  /\ RowsOf(rate_limits', PresentedToken(p), req[p].op)[1].count = 1)]_vars
\* the seeded token's save_chat counter is at its limit and its last call
\* was rejected, while a later token of the same user was allowed
C35_Witness ==
    /\ Len(sessions) > 1
    /\ sessions[2].user_id = sessions[1].user_id
    /\ RateLimitIds(TEST_SESSION_TOKEN, "save_chat") # {}
    /\ first_rate_limit(TEST_SESSION_TOKEN, "save_chat").count = RATE_LIMIT_SAVE_CHAT
    /\ \E i \in 1..Len(rl_history) :
           /\ rl_history[i].session_token = TEST_SESSION_TOKEN
           /\ rl_history[i].action = "save_chat"
           /\ ~rl_history[i].allowed
    /\ rl_history # <<>>
    /\ LastCall.session_token = sessions[2].session_token
    /\ LastCall.action = "save_chat"
    /\ LastCall.allowed
    /\ first_rate_limit(sessions[2].session_token, "save_chat").count = 1

ConsumableIds ==
    {i \in 1..Len(verification_tokens) :
        /\ ~verification_tokens[i].used
        /\ ~TokenExpired(verification_tokens[i])
        /\ first_user(verification_tokens[i].email) # 0}

\* C37: a step that issues a verification token (signup again, resend)
\* appends one row with a fresh token and leaves every earlier row as it was,
\* so every token that was consumable before is consumable after; verify of
\* a consumable token is let through, and its commit marks that one row
\* used and adds one new session, created for that token alone.
C37_EarlierTokensStayConsumable ==
    [][/\ (Len(verification_tokens') > Len(verification_tokens)) =>
              /\ Len(verification_tokens') = Len(verification_tokens) + 1
              /\ \A i \in 1..Len(verification_tokens) :
                     /\ verification_tokens'[i] = verification_tokens[i]
                     /\ verification_tokens'[Len(verification_tokens')].token
                            # verification_tokens[i].token
              /\ ConsumableIds \subseteq ConsumableIds'
       /\ \A p \in 1..NumProcs :
              /\ (/\ Starts(p, "verify")
                  /\ \E i \in ConsumableIds :
                         verification_tokens[i].token = req'[p].token) =>
                     /\ pc'[p] = "verify_commit"
                     /\ req'[p].verification \in ConsumableIds
                     /\ verification_tokens[req'[p].verification].token
                            = req'[p].token
              /\ (/\ pc[p] = "verify_commit"
                  /\ pc'[p] = "idle"
                  /\ req[p].verification \in ConsumableIds) =>
                     /\ resp'[p].code = "OK"
                     /\ Len(sessions') = Len(sessions) + 1
                     /\ \A s \in 1..Len(sessions) :
                            /\ sessions'[s] = sessions[s]
                            /\ sessions[s].via
                                   # verification_tokens[req[p].verification].token
                            /\ sessions[s].session_token
                                   # sessions'[Len(sessions')].session_token
                     /\ sessions'[Len(sessions')].via
                            = verification_tokens[req[p].verification].token
                     /\ resp'[p].session_token
                            = sessions'[Len(sessions')].session_token
                     /\ ConsumableIds' = ConsumableIds \ {req[p].verification}]_vars

\* two tokens of one email, the later one issued by resend, were both
\* consumed, the earlier one last, and each has a session of its own
C37_Witness ==
    \E i, j \in 1..Len(verification_tokens) :
        /\ i < j
        /\ verification_tokens[i].email = verification_tokens[j].email
        /\ verification_tokens[j].origin = "resend"
        /\ verification_tokens[i].used
        /\ verification_tokens[j].used
        /\ \E s, t \in 1..Len(sessions) :
               /\ s < t
               /\ sessions[s].via = verification_tokens[j].token
               /\ sessions[t].via = verification_tokens[i].token
               /\ sessions[s].session_token # sessions[t].session_token


\* the sessions verify created: those that record the token consumed for them
VerifySessions == {s \in 1..Len(sessions) : sessions[s].via # <<>>}

\* C38: in every committed state each session created by verify belongs to
\* an existing user whose email_verified is true, and no step removes a user
\* row or turns a true email_verified into false.
C38_VerifiedStaysVerified ==
    /\ [](\A s \in VerifySessions :
              /\ sessions[s].user_id \in 1..Len(users)
              /\ users[sessions[s].user_id].email_verified)
    /\ [][/\ Len(users') >= Len(users)
          /\ \A u \in 1..Len(users) :
                 /\ users'[u].email = users[u].email
                 /\ users[u].email_verified => users'[u].email_verified]_vars

\* a user that signup created unverified was verified by a verify call that
\* created a session for it
C38_Witness ==
    /\ pc[1] = "idle"
    /\ req[1].op = "verify"
    /\ resp[1].code = "OK"
    /\ \E s \in VerifySessions :
           /\ s = Len(sessions)
           /\ sessions[s].user_id > 1
           /\ users[sessions[s].user_id].email_verified
           /\ \E i \in 1..Len(verification_tokens) :
                  /\ verification_tokens[i].token = sessions[s].via
                  /\ verification_tokens[i].origin = "signup"
                  /\ verification_tokens[i].used

====
